---------------------------- MODULE Spec2Model ----------------------------
(***************************************************************************)
(* Model of the tick-to-trigger pipeline of ultra-fast-altbot:             *)
(*   - PriceSnapshot (ring of price points, 60 s return)   hotpath/mod.rs  *)
(*   - HotPath (kill switch, cooldown, budget, open-intent gate, emit)     *)
(*   - ExecutionMock (Submitted / Ack / Fill for each intent) execution/   *)
(*   - the benchmark harness threads (producer loop, event consumer)       *)
(*     of run_shadow_benchmark in main.rs                                  *)
(*                                                                         *)
(* Every atomic access to state that another thread may write is a step of *)
(* its own.  Relaxed atomics are modelled as sequentially consistent per   *)
(* location.  Prices and timestamps are small integers (a scaled unit);    *)
(* the return is compared exactly, (new - old) * 100 >= threshold * old,   *)
(* where the code compares the f64 quotient.                               *)
(***************************************************************************)
EXTENDS Integers, Sequences, FiniteSets, TLC

\* ------------------------------------------------------------------ bounds
\* Valid instrument ids are 0 .. max_symbols - 1; ticks may also carry the
\* id max_symbols (out of range).
max_symbols == 3
\* Slots of a PriceSnapshot ring (the code sizes it window_secs * 100).
RingCapacity == 3
\* window_ms of a PriceSnapshot, in the model's time unit.
WindowMs == 2
\* Number of process_tick calls, update_snapshot calls, set_can_buy calls
\* and replenish_budget calls of one run.
MaxTicks == 3
MaxUpdates == 1
MaxToggles == 2
MaxReplenish == 1
\* update_snapshot calls of the maintenance thread: enough to wrap a ring.
SnapUpdates == RingCapacity
\* add calls on a ring under test: one more than its slots.
RingAdds == RingCapacity + 1

\* ---------------------------------------------------- program constants
\* max_value of MetricsCollector::new in run_shadow_benchmark (100_000 us,
\* scaled down)
hist_max_value == 2
\* Config::default().return_threshold_pct
threshold_pct == 5
\* ExecutionMock::new(1000, 50, 100) in run_shadow_benchmark
ack_delay_us == 50
fill_delay_us == 100
\* u32::MAX and u64::MAX.  TLC's integers end at 2^31 - 1, which stands for
\* both: only their being the top of the range is used (the value a
\* fetch_sub wraps to, the initial oldest_ts).
U32_MAX == 2147483647
U64_MAX == 2147483647
\* 2^53, the integer up to which `px as f64` is exact.  It stands to
\* U64_MAX as 2^53 to 2^64: 2^20.
F64_EXACT_MAX == 1048576

\* ------------------------------------------------------------ data types
Symbols == 0 .. (max_symbols - 1)
TickSymbols == 0 .. max_symbols
\* Tick timestamps; LastTs is the largest.
TickTimes == {2, 3}
LastTs == CHOOSE t \in TickTimes : \A u \in TickTimes : u <= t

\* Points added to a ring under test, and the times it is queried at.
\* Prices of the ticks of a feed, and the latencies measured for them.
FeedPrices == {100, 104, 105, 106}
Latencies == {1, hist_max_value + 1, hist_max_value + 2}
RingPrices == {0, 100, 106}
\* Prices at the end of the range `px as f64` is exact in: the last exact
\* one, the first that has no odd neighbour, and one that is rounded.
BigPrices == {F64_EXACT_MAX - 1, F64_EXACT_MAX, F64_EXACT_MAX + 1}
PriceTimes == 1 .. 3
RingTimes == 1 .. 4
QueryTimes == {2, 3, 4}

TradeTick(s, p, t) == [symbol_id |-> s, px_e8 |-> p, ts_unix_ms |-> t]
NoTick == TradeTick(0, 0, 0)
Ticks == {TradeTick(s, 106, t) : s \in TickSymbols, t \in TickTimes}

PricePoint(p, t) == [px_e8 |-> p, ts_unix_ms |-> t]

\* OrderIntent::new(symbol_id, side, px_e8, ts_unix_ms)
OrderIntent(s, side, p, t) ==
    [symbol_id |-> s, side |-> side, px_e8 |-> p, ts_unix_ms |-> t]
NoIntent == OrderIntent(0, "Buy", 0, 0)

\* OrderEvent::new(kind, symbol_id, px_e8, ts_unix_ms)
OrderEvent(kind, s, p, t) ==
    [kind |-> kind, symbol_id |-> s, px_e8 |-> p, ts_unix_ms |-> t]

\* ---------------------------------------------------------- PriceSnapshot
\* Option<f64>::None for a return.
NoneRet == [some |-> FALSE, new_px |-> 0, old_px |-> 0]

\* PriceSnapshot::new: every slot (0, 0), write_idx 0, count 0, no
\* aggregate returns.
NewSnapshot ==
    [prices    |-> [i \in 1 .. RingCapacity |-> PricePoint(0, 0)],
     write_idx |-> 0,
     count     |-> 0,
     window_ms |-> WindowMs,
     ret_15m   |-> NoneRet,
     ret_1h    |-> NoneRet]

\* Mutant of SnapshotAdd: on a full ring write_idx is not advanced.
SnapshotAdd_StuckWhenFull(snap, p, t) ==
    [snap EXCEPT
        !.prices    = [snap.prices EXCEPT ![snap.write_idx + 1] = PricePoint(p, t)],
        !.write_idx = IF snap.count < Len(snap.prices)
                      THEN (snap.write_idx + 1) % Len(snap.prices)
                      ELSE snap.write_idx,
        !.count     = IF snap.count < Len(snap.prices) THEN snap.count + 1
                                                        ELSE snap.count]

\* PriceSnapshot::add: write at write_idx, advance modulo the capacity,
\* saturate count.  Slot i of the code is prices[i + 1] here.
SnapshotAdd(snap, p, t) ==
    [snap EXCEPT
        !.prices    = [snap.prices EXCEPT ![snap.write_idx + 1] = PricePoint(p, t)],
        !.write_idx = (snap.write_idx + 1) % Len(snap.prices),
        !.count     = IF snap.count < Len(snap.prices) THEN snap.count + 1
                                                        ELSE snap.count]

\* The ring after a sequence of add calls (each intermediate ring is bound
\* as a value, so that it is computed once).
RECURSIVE AddAll(_, _)
AddAll(snap, points) ==
    IF points = <<>> THEN snap
    ELSE CHOOSE ring \in
             {AddAll(SnapshotAdd(cur, Head(points).px_e8,
                                 Head(points).ts_unix_ms), Tail(points)) :
                 cur \in {snap}} : TRUE

\* u64::saturating_sub
SaturatingSub(a, b) == IF a >= b THEN a - b ELSE 0

\* Mutant of ScanWindow: oldest and newest by slot position (the first and
\* the last slot in the window), not by timestamp.
RECURSIVE ScanWindow_BySlot(_, _, _, _)
ScanWindow_BySlot(snap, i, cutoff_ts, acc) ==
    IF i >= snap.count THEN acc
    ELSE LET point == snap.prices[i + 1]
             inw   == point.ts_unix_ms >= cutoff_ts
             first == inw /\ acc.oldest_price = -1
             next  == [oldest_price |-> IF first THEN point.px_e8
                                                 ELSE acc.oldest_price,
                       oldest_ts    |-> IF first THEN point.ts_unix_ms
                                                 ELSE acc.oldest_ts,
                       newest_price |-> IF inw THEN point.px_e8
                                               ELSE acc.newest_price,
                       newest_ts    |-> IF inw THEN point.ts_unix_ms
                                               ELSE acc.newest_ts]
         IN  ScanWindow_BySlot(snap, i + 1, cutoff_ts, next)

\* The scan of compute_return_60s over slots i .. count - 1, from the
\* accumulator acc = (oldest_price, oldest_ts, newest_price, newest_ts);
\* a price of -1 is None.
RECURSIVE ScanWindow(_, _, _, _)
ScanWindow(snap, i, cutoff_ts, acc) ==
    IF i >= snap.count THEN acc
    ELSE LET point == snap.prices[i + 1]
             inw   == point.ts_unix_ms >= cutoff_ts
             older == inw /\ point.ts_unix_ms < acc.oldest_ts
             newer == inw /\ point.ts_unix_ms > acc.newest_ts
             next  == [oldest_price |-> IF older THEN point.px_e8 ELSE acc.oldest_price,
                       oldest_ts    |-> IF older THEN point.ts_unix_ms ELSE acc.oldest_ts,
                       newest_price |-> IF newer THEN point.px_e8 ELSE acc.newest_price,
                       newest_ts    |-> IF newer THEN point.ts_unix_ms ELSE acc.newest_ts]
         IN  ScanWindow(snap, i + 1, cutoff_ts, next)

\* oldest_price = None, oldest_ts = u64::MAX, newest_price = None,
\* newest_ts = 0
ScanStart == [oldest_price |-> -1, oldest_ts |-> U64_MAX,
              newest_price |-> -1, newest_ts |-> 0]

\* The distance of neighbouring f64 values at x: 1 below 2^53, 2 from 2^53
\* below 2^54, and so on.
RECURSIVE F64Ulp(_, _)
F64Ulp(x, step) ==
    IF x \div step < F64_EXACT_MAX THEN step ELSE F64Ulp(x, 2 * step)

\* `x as f64` of a u64: the nearest f64, a tie going to the even
\* significand.
AsF64(x) ==
    LET ulp == F64Ulp(x, 1)
        q   == x \div ulp
        r   == x % ulp
    IN  IF 2 * r < ulp THEN q * ulp
        ELSE IF 2 * r > ulp THEN (q + 1) * ulp
        ELSE IF q % 2 = 0 THEN q * ulp ELSE (q + 1) * ulp

\* Mutant of ComputeReturn60s: without the count < 2 test.
ComputeReturn60s_NoCountTest(snap, current_ts_ms) ==
    LET cutoff_ts == SaturatingSub(current_ts_ms, snap.window_ms)
        r == ScanWindow(snap, 0, cutoff_ts,
                        [oldest_price |-> -1, oldest_ts |-> U64_MAX,
                         newest_price |-> -1, newest_ts |-> 0])
    IN  IF r.oldest_price # -1 /\ r.newest_price # -1 /\ r.oldest_price > 0
        THEN [some |-> TRUE, new_px |-> AsF64(r.newest_price),
              old_px |-> AsF64(r.oldest_price)]
        ELSE [some |-> FALSE, new_px |-> 0, old_px |-> 0]

\* Mutant of ComputeReturn60s: the quotient is taken the other way round,
\* from the newest price to the oldest.
ComputeReturn60s_Inverted(snap, current_ts_ms) ==
    IF snap.count < 2 THEN [some |-> FALSE, new_px |-> 0, old_px |-> 0]
    ELSE LET cutoff_ts == SaturatingSub(current_ts_ms, snap.window_ms)
             r == ScanWindow(snap, 0, cutoff_ts,
                             [oldest_price |-> -1, oldest_ts |-> U64_MAX,
                              newest_price |-> -1, newest_ts |-> 0])
         IN  IF r.oldest_price > 0 /\ r.newest_price > 0
             THEN [some |-> TRUE, new_px |-> AsF64(r.oldest_price),
                   old_px |-> AsF64(r.newest_price)]
             ELSE [some |-> FALSE, new_px |-> 0, old_px |-> 0]

\* PriceSnapshot::compute_return_60s.  The result is None, or Some of the
\* return (new_px as f64 - old_px as f64) / old_px as f64 * 100.0, kept as
\* the pair of converted prices it is the quotient of.
ComputeReturn60s(snap, current_ts_ms) ==
    IF snap.count < 2 THEN NoneRet
    ELSE LET cutoff_ts == SaturatingSub(current_ts_ms, snap.window_ms)
             r == ScanWindow(snap, 0, cutoff_ts, ScanStart)
         IN  IF r.oldest_price # -1 /\ r.newest_price # -1 /\ r.oldest_price > 0
             THEN [some |-> TRUE, new_px |-> AsF64(r.newest_price),
                   old_px |-> AsF64(r.oldest_price)]
             ELSE NoneRet

\* The locals of compute_return_60s when its scan is over (the start
\* values if count < 2 returned before the scan).
ScanLocals(snap, current_ts_ms) ==
    IF snap.count < 2 THEN ScanStart
    ELSE ScanWindow(snap, 0, SaturatingSub(current_ts_ms, snap.window_ms),
                    ScanStart)

\* PriceSnapshot::compute_return_window: the scan of compute_return_60s
\* with the cutoff current_ts_ms - window_secs * 1000.
ComputeReturnWindow(snap, window_secs, current_ts_ms) ==
    IF snap.count < 2 THEN NoneRet
    ELSE LET cutoff_ts == SaturatingSub(current_ts_ms, window_secs * 1000)
             r == ScanWindow(snap, 0, cutoff_ts, ScanStart)
         IN  IF r.oldest_price # -1 /\ r.newest_price # -1 /\ r.oldest_price > 0
             THEN [some |-> TRUE, new_px |-> AsF64(r.newest_price),
                   old_px |-> AsF64(r.oldest_price)]
             ELSE NoneRet

\* PriceSnapshot::update_aggregates
SnapshotUpdateAggregates(snap, current_ts_ms) ==
    [snap EXCEPT !.ret_15m = ComputeReturnWindow(snap, 15 * 60, current_ts_ms),
                 !.ret_1h  = ComputeReturnWindow(snap, 60 * 60, current_ts_ms)]

\* Mutant of ReachesThreshold: the threshold itself does not trigger.
ReachesThreshold_Strict(ret) ==
    ret.some /\ (ret.new_px - ret.old_px) * 100 > threshold_pct * ret.old_px

\* ------------------------------------------------------- MetricsCollector
\* The histogram of MetricsCollector::new(100_000, 3), as the sequence of
\* the values it holds.  Histogram::new_with_max leaves auto-resize off;
\* the highest value the histogram can hold is the end of the bucket that
\* max_value falls in (131_071 for 100_000), here one above max_value.
HistHighest == hist_max_value + 1

\* MetricsCollector::record: Histogram::record stores the value, or
\* returns an error (mapped to Err(String)) and stores nothing when the
\* value is beyond the highest value the histogram can hold.
MetricsRecord(histogram, latency_micros) ==
    IF latency_micros <= HistHighest
    THEN [ok |-> TRUE, histogram |-> Append(histogram, latency_micros)]
    ELSE [ok |-> FALSE, histogram |-> histogram]

\* MetricsCollector::count
MetricsCount(histogram) == Len(histogram)

\* ret_60s >= self.threshold_pct
ReachesThreshold(ret) ==
    ret.some /\ (ret.new_px - ret.old_px) * 100 >= threshold_pct * ret.old_px


\* ------------------------------------------------------------------ state
VARIABLES
    \* HotPath fields
    can_buy, snapshots, max_open_intents, open_intents, budget, cooldowns,
    cooldown_ms, intent_tx, dropped_intents, emitted_intents,
    gate_block_count, cooldown_block_count,
    \* the two bounded channels of ExecutionMock::new, and their capacity
    queue_capacity, intents, events,
    \* ExecutionMock counters, and the execution thread's position
    submitted_count, ack_count, fill_count, exec_pc, exec_intent,
    \* the event consumer thread of run_shadow_benchmark: its position, and
    \* (history) the number of its decrement_open_intents calls and of the
    \* Fill events it received
    fb_pc, release_calls, fills_received,
    \* the producer loop of run_shadow_benchmark: its position inside
    \* process_tick, the tick of the current (or, between calls, the last)
    \* process_tick call, trigger_count, and call counts
    hp_pc, hp_tick, trigger_count, ticks_done, updates_done,
    \* callers of set_can_buy and replenish_budget
    toggles_done, replenish_calls, replenished,
    \* history: initial_budget as passed to with_config, the intents whose
    \* try_send succeeded, in order, and the ticks for which process_tick
    \* returned Some(trigger), in order
    initial_budget, sent_log, trigger_log,
    \* a maintenance thread inside update_snapshot: its position and the
    \* call's arguments and loaded snapshot; (history) the points appended
    \* to each instrument's ring, in order; and a direct caller of
    \* compute_return_60s on instrument 0: its last call and result
    w_pc, w_call, append_log, query,
    \* the MetricsCollector of run_shadow_benchmark, and a caller of
    \* get_can_buy
    metrics, flag_probe

cfg_vars  == <<max_open_intents, cooldown_ms, intent_tx, queue_capacity,
               initial_budget>>
gate_vars == <<can_buy, open_intents, budget, cooldowns, dropped_intents,
               emitted_intents, gate_block_count, cooldown_block_count>>
count_vars == <<dropped_intents, emitted_intents, gate_block_count,
                cooldown_block_count>>
chan_vars == <<intents, events>>
exec_vars == <<submitted_count, ack_count, fill_count, exec_pc, exec_intent>>
fb_vars   == <<fb_pc, release_calls, fills_received>>
hp_vars   == <<hp_pc, hp_tick, trigger_count, ticks_done, trigger_log>>
env_vars  == <<toggles_done, replenish_calls, replenished>>
snap_vars == <<w_pc, w_call, append_log, query>>
probe_vars == <<metrics, flag_probe>>
vars == <<cfg_vars, snapshots, gate_vars, chan_vars, exec_vars, fb_vars,
          hp_vars, updates_done, snap_vars, probe_vars, env_vars, sent_log>>

\* The ring of every instrument after the pre-population of
\* run_shadow_benchmark: two points, a rise of 6 %.
PrePopulatedPoints == <<PricePoint(100, 1), PricePoint(106, 2)>>
PrePopulated == SnapshotAdd(SnapshotAdd(NewSnapshot, 100, 1), 106, 2)

\* A maintenance thread outside update_snapshot, and a caller that has not
\* called compute_return_60s yet.
NoCall == [symbol_id |-> 0, px_e8 |-> 0, ts_unix_ms |-> 0, current |-> NewSnapshot]
NoQuery == [called |-> FALSE, current_ts_ms |-> 0, ret |-> NoneRet,
            scan |-> ScanStart]

\* MetricsCollector::new: an empty histogram; calls counts the record
\* calls and errs those that returned Err.
NewMetrics == [histogram |-> <<>>, calls |-> 0, errs |-> 0]

\* A caller of get_can_buy that has not called yet; last_set is (history)
\* the argument of the last set_can_buy, true standing for construction,
\* and expected its value when get_can_buy was called.
NoProbe == [called |-> FALSE, got |-> TRUE, expected |-> TRUE,
            last_set |-> TRUE]

\* HotPath::with_config and ExecutionMock::new, for the configuration
\* (max_open, cooldown, budget, capacity); wired: set_intent_sender was
\* called before the first tick.
InitAll(max_open, cooldown, init_budget, capacity, wired, points) ==
    /\ can_buy = TRUE
    /\ snapshots = [s \in Symbols |-> AddAll(NewSnapshot, points)]
    /\ max_open_intents = max_open
    /\ open_intents = 0
    /\ budget = init_budget
    /\ cooldowns = [s \in Symbols |-> 0]
    /\ cooldown_ms = cooldown
    /\ intent_tx = wired
    /\ dropped_intents = 0
    /\ emitted_intents = 0
    /\ gate_block_count = 0
    /\ cooldown_block_count = 0
    /\ queue_capacity = capacity
    /\ intents = <<>>
    /\ events = <<>>
    /\ submitted_count = 0
    /\ ack_count = 0
    /\ fill_count = 0
    /\ exec_pc = "recv"
    /\ exec_intent = NoIntent
    /\ fb_pc = "recv"
    /\ release_calls = 0
    /\ fills_received = 0
    /\ hp_pc = "idle"
    /\ hp_tick = NoTick
    /\ trigger_count = 0
    /\ ticks_done = 0
    /\ updates_done = 0
    /\ toggles_done = 0
    /\ replenish_calls = 0
    /\ replenished = 0
    /\ initial_budget = init_budget
    /\ sent_log = <<>>
    /\ trigger_log = <<>>
    /\ w_pc = "idle"
    /\ w_call = NoCall
    /\ append_log = [s \in Symbols |-> points]
    /\ query = NoQuery
    /\ metrics = NewMetrics
    /\ flag_probe = NoProbe
InitWith(max_open, cooldown, init_budget, capacity, wired) ==
    InitAll(max_open, cooldown, init_budget, capacity, wired,
            PrePopulatedPoints)

\* ------------------------------------------------- shared-memory helpers
\* AtomicU32::fetch_add(1) / fetch_sub(1): wrapping.
WrappingAdd1(x) == IF x = U32_MAX THEN 0 ELSE x + 1
WrappingSub1(x) == IF x = 0 THEN U32_MAX ELSE x - 1

\* Mutant of HasRoom: a channel that takes one message over its capacity.
HasRoom_OneOver(chan, capacity) == Len(chan) <= capacity

\* Sender::try_send on a bounded channel: Ok iff there is room.
HasRoom(chan, capacity) == Len(chan) < capacity
TrySend(chan, capacity, msg) == IF HasRoom(chan, capacity) THEN Append(chan, msg) ELSE chan

\* bounded(queue_capacity * 2) of ExecutionMock::new
EventsCapacity == queue_capacity * 2


\* Mutant of ShouldSkip: the kill switch is not consulted.
ShouldSkip_IgnoreCanBuy(tick) == tick.symbol_id >= max_symbols

\* ------------------------------------------------------- HotPath: the gate
\* process_tick's first test: the kill switch, then the bounds check.
ShouldSkip(tick) == ~can_buy \/ tick.symbol_id >= max_symbols

\* Mutant of InCooldown: a stamp of 0 is taken for "never admitted" and
\* exempts the trigger.
InCooldown_FirstFree(ts, last_trigger) ==
    last_trigger # 0 /\ ts < last_trigger + cooldown_ms

\* Mutant of InCooldown: the cooldown duration is left out of the test.
InCooldown_NoDuration(ts, last_trigger) == ts < last_trigger

\* tick.ts_unix_ms < last_trigger + self.cooldown_ms
InCooldown(ts, last_trigger) == ts < last_trigger + cooldown_ms

\* Mutant of NoBudget: the budget is never found exhausted.
NoBudget_Never(b) == FALSE

\* budget == 0
NoBudget(b) == b = 0

\* Mutant of TooManyOpen: the limit itself is still admitted.
TooManyOpen_OverLimit(open, max_open) == open > max_open

\* open >= max_open
TooManyOpen(open, max_open) == open >= max_open

\* process_tick returns to the producer loop, which counts a Some(trigger).
ReturnFromTick(tick, triggered) ==
    /\ hp_pc' = "idle"
    /\ hp_tick' = tick
    /\ ticks_done' = ticks_done + 1
    /\ trigger_count' = trigger_count + (IF triggered THEN 1 ELSE 0)
    /\ trigger_log' = IF triggered THEN Append(trigger_log, tick) ELSE trigger_log

\* process_tick up to the call of try_emit_intent: the can_buy load, the
\* bounds check, the snapshot load, the 60 s return and the threshold.
HP_ProcessTick(tick) ==
    /\ hp_pc = "idle"
    /\ ticks_done < MaxTicks
    /\ IF ShouldSkip(tick)
       THEN ReturnFromTick(tick, FALSE)
       ELSE IF ReachesThreshold(ComputeReturn60s(snapshots[tick.symbol_id],
                                                 tick.ts_unix_ms))
            THEN /\ hp_pc' = "emit"
                 /\ hp_tick' = tick
                 /\ UNCHANGED <<trigger_count, ticks_done, trigger_log>>
            ELSE ReturnFromTick(tick, FALSE)
    /\ UNCHANGED <<cfg_vars, snapshots, gate_vars, chan_vars, exec_vars,
                   fb_vars, updates_done, snap_vars, env_vars, sent_log,
                   probe_vars>>

\* Mutant of HP_CheckCooldown: the budget is looked at before the
\* cooldown.
HP_CheckCooldown_BudgetFirst ==
    /\ hp_pc = "emit"
    /\ IF ~intent_tx \/ hp_tick.symbol_id >= max_symbols
       THEN /\ ReturnFromTick(hp_tick, TRUE)
            /\ UNCHANGED <<cooldown_block_count, gate_block_count>>
       ELSE IF NoBudget(budget)
            THEN /\ gate_block_count' = gate_block_count + 1
                 /\ ReturnFromTick(hp_tick, TRUE)
                 /\ UNCHANGED cooldown_block_count
            ELSE IF InCooldown(hp_tick.ts_unix_ms,
                               cooldowns[hp_tick.symbol_id])
                 THEN /\ cooldown_block_count' = cooldown_block_count + 1
                      /\ ReturnFromTick(hp_tick, TRUE)
                      /\ UNCHANGED gate_block_count
                 ELSE /\ hp_pc' = "budget"
                      /\ UNCHANGED <<hp_tick, trigger_count, ticks_done,
                                     trigger_log, cooldown_block_count,
                                     gate_block_count>>
    /\ UNCHANGED <<cfg_vars, snapshots, can_buy, open_intents, budget,
                   cooldowns, dropped_intents, emitted_intents, chan_vars,
                   exec_vars, fb_vars, updates_done, snap_vars, env_vars,
                   sent_log, probe_vars>>

\* Mutant of HP_CheckCooldown: the sender is looked for after the cooldown
\* check.
HP_CheckCooldown_SenderLast ==
    /\ hp_pc = "emit"
    /\ IF hp_tick.symbol_id >= max_symbols
       THEN /\ ReturnFromTick(hp_tick, TRUE)
            /\ UNCHANGED cooldown_block_count
       ELSE IF InCooldown(hp_tick.ts_unix_ms, cooldowns[hp_tick.symbol_id])
            THEN /\ cooldown_block_count' = cooldown_block_count + 1
                 /\ ReturnFromTick(hp_tick, TRUE)
            ELSE IF ~intent_tx
                 THEN /\ ReturnFromTick(hp_tick, TRUE)
                      /\ UNCHANGED cooldown_block_count
                 ELSE /\ hp_pc' = "budget"
                      /\ UNCHANGED <<hp_tick, trigger_count, ticks_done,
                                     trigger_log, cooldown_block_count>>
    /\ UNCHANGED <<cfg_vars, snapshots, can_buy, open_intents, budget,
                   cooldowns, dropped_intents, emitted_intents,
                   gate_block_count, chan_vars, exec_vars, fb_vars,
                   updates_done, snap_vars, env_vars, sent_log, probe_vars>>

\* try_emit_intent: no sender, the bounds check, the cooldown check.
HP_CheckCooldown ==
    /\ hp_pc = "emit"
    /\ IF ~intent_tx \/ hp_tick.symbol_id >= max_symbols
       THEN /\ ReturnFromTick(hp_tick, TRUE)
            /\ UNCHANGED cooldown_block_count
       ELSE IF InCooldown(hp_tick.ts_unix_ms, cooldowns[hp_tick.symbol_id])
            THEN /\ cooldown_block_count' = cooldown_block_count + 1
                 /\ ReturnFromTick(hp_tick, TRUE)
            ELSE /\ hp_pc' = "budget"
                 /\ UNCHANGED <<hp_tick, trigger_count, ticks_done,
                                trigger_log, cooldown_block_count>>
    /\ UNCHANGED <<cfg_vars, snapshots, can_buy, open_intents, budget,
                   cooldowns, dropped_intents, emitted_intents,
                   gate_block_count, chan_vars, exec_vars, fb_vars,
                   updates_done, snap_vars, env_vars, sent_log, probe_vars>>

\* Mutant of HP_CheckBudget: a budget rejection that is not counted.
HP_CheckBudget_NoCount ==
    /\ hp_pc = "budget"
    /\ IF NoBudget(budget)
       THEN ReturnFromTick(hp_tick, TRUE)
       ELSE /\ hp_pc' = "open"
            /\ UNCHANGED <<hp_tick, trigger_count, ticks_done, trigger_log>>
    /\ UNCHANGED <<cfg_vars, snapshots, can_buy, open_intents, budget,
                   cooldowns, count_vars, chan_vars, exec_vars, fb_vars,
                   updates_done, snap_vars, env_vars, sent_log, probe_vars>>

\* try_emit_intent: the budget check.
HP_CheckBudget ==
    /\ hp_pc = "budget"
    /\ IF NoBudget(budget)
       THEN /\ gate_block_count' = gate_block_count + 1
            /\ ReturnFromTick(hp_tick, TRUE)
       ELSE /\ hp_pc' = "open"
            /\ UNCHANGED <<hp_tick, trigger_count, ticks_done, trigger_log,
                           gate_block_count>>
    /\ UNCHANGED <<cfg_vars, snapshots, can_buy, open_intents, budget,
                   cooldowns, dropped_intents, emitted_intents,
                   cooldown_block_count, chan_vars, exec_vars, fb_vars,
                   updates_done, snap_vars, env_vars, sent_log, probe_vars>>

\* Mutant of HP_CheckOpen: a trigger rejected for too many open intents
\* stamps its instrument's cooldown.
HP_CheckOpen_StampsCooldown ==
    /\ hp_pc = "open"
    /\ IF TooManyOpen(open_intents, max_open_intents)
       THEN /\ gate_block_count' = gate_block_count + 1
            /\ cooldowns' = [cooldowns EXCEPT ![hp_tick.symbol_id] =
                                                hp_tick.ts_unix_ms]
            /\ ReturnFromTick(hp_tick, TRUE)
       ELSE /\ hp_pc' = "send"
            /\ UNCHANGED <<hp_tick, trigger_count, ticks_done, trigger_log,
                           gate_block_count, cooldowns>>
    /\ UNCHANGED <<cfg_vars, snapshots, can_buy, open_intents, budget,
                   dropped_intents, emitted_intents, cooldown_block_count,
                   chan_vars, exec_vars, fb_vars, updates_done, snap_vars,
                   env_vars, sent_log, probe_vars>>

\* try_emit_intent: the open-intent check.
HP_CheckOpen ==
    /\ hp_pc = "open"
    /\ IF TooManyOpen(open_intents, max_open_intents)
       THEN /\ gate_block_count' = gate_block_count + 1
            /\ ReturnFromTick(hp_tick, TRUE)
       ELSE /\ hp_pc' = "send"
            /\ UNCHANGED <<hp_tick, trigger_count, ticks_done, trigger_log,
                           gate_block_count>>
    /\ UNCHANGED <<cfg_vars, snapshots, can_buy, open_intents, budget,
                   cooldowns, dropped_intents, emitted_intents,
                   cooldown_block_count, chan_vars, exec_vars, fb_vars,
                   updates_done, snap_vars, env_vars, sent_log, probe_vars>>

\* Mutant of HP_TrySend: a blocking send, which waits for room.
HP_TrySend_Blocking ==
    /\ hp_pc = "send"
    /\ HasRoom(intents, queue_capacity)
    /\ LET intent == OrderIntent(hp_tick.symbol_id, "Buy", hp_tick.px_e8,
                                 hp_tick.ts_unix_ms)
       IN  /\ intents' = Append(intents, intent)
           /\ sent_log' = Append(sent_log, intent)
    /\ hp_pc' = "emitted"
    /\ UNCHANGED <<cfg_vars, snapshots, gate_vars, events, exec_vars, fb_vars,
                   hp_tick, trigger_count, ticks_done, trigger_log,
                   updates_done, snap_vars, env_vars, probe_vars>>

\* Mutant of HP_TrySend: the admit is charged whether or not the send
\* succeeds, so a dropped intent is counted as emitted, takes a budget
\* token and an open-intent slot, and stamps the cooldown.
HP_TrySend_ChargeOnDrop ==
    /\ hp_pc = "send"
    /\ LET intent == OrderIntent(hp_tick.symbol_id, "Buy", hp_tick.px_e8,
                                 hp_tick.ts_unix_ms)
       IN  IF HasRoom(intents, queue_capacity)
           THEN /\ intents' = TrySend(intents, queue_capacity, intent)
                /\ sent_log' = Append(sent_log, intent)
                /\ hp_pc' = "emitted"
                /\ UNCHANGED <<hp_tick, trigger_count, ticks_done,
                               trigger_log, dropped_intents, emitted_intents,
                               open_intents, budget, cooldowns>>
           ELSE /\ dropped_intents' = dropped_intents + 1
                /\ emitted_intents' = emitted_intents + 1
                /\ open_intents' = WrappingAdd1(open_intents)
                /\ budget' = budget - 1
                /\ cooldowns' = [cooldowns EXCEPT ![hp_tick.symbol_id] =
                                                    hp_tick.ts_unix_ms]
                /\ ReturnFromTick(hp_tick, TRUE)
                /\ UNCHANGED <<intents, sent_log>>
    /\ UNCHANGED <<cfg_vars, snapshots, can_buy, gate_block_count,
                   cooldown_block_count, events, exec_vars, fb_vars,
                   updates_done, snap_vars, env_vars, probe_vars>>

\* Mutant of HP_TrySend: Err(_) counts a drop and takes the intent back
\* out of emitted_intents.
HP_TrySend_UndoOnDrop ==
    /\ hp_pc = "send"
    /\ LET intent == OrderIntent(hp_tick.symbol_id, "Buy", hp_tick.px_e8,
                                 hp_tick.ts_unix_ms)
       IN  IF HasRoom(intents, queue_capacity)
           THEN /\ intents' = TrySend(intents, queue_capacity, intent)
                /\ sent_log' = Append(sent_log, intent)
                /\ hp_pc' = "emitted"
                /\ UNCHANGED <<hp_tick, trigger_count, ticks_done,
                               trigger_log, dropped_intents, emitted_intents>>
           ELSE /\ dropped_intents' = dropped_intents + 1
                /\ emitted_intents' = emitted_intents - 1
                /\ ReturnFromTick(hp_tick, TRUE)
                /\ UNCHANGED <<intents, sent_log>>
    /\ UNCHANGED <<cfg_vars, snapshots, can_buy, open_intents, budget,
                   cooldowns, gate_block_count, cooldown_block_count, events,
                   exec_vars, fb_vars, updates_done, snap_vars, env_vars,
                   probe_vars>>

\* try_emit_intent: the intent and its try_send; Err(_) counts a drop and
\* returns.
HP_TrySend ==
    /\ hp_pc = "send"
    /\ LET intent == OrderIntent(hp_tick.symbol_id, "Buy", hp_tick.px_e8,
                                 hp_tick.ts_unix_ms)
       IN  IF HasRoom(intents, queue_capacity)
           THEN /\ intents' = TrySend(intents, queue_capacity, intent)
                /\ sent_log' = Append(sent_log, intent)
                /\ hp_pc' = "emitted"
                /\ UNCHANGED <<hp_tick, trigger_count, ticks_done,
                               trigger_log, dropped_intents>>
           ELSE /\ dropped_intents' = dropped_intents + 1
                /\ ReturnFromTick(hp_tick, TRUE)
                /\ UNCHANGED <<intents, sent_log>>
    /\ UNCHANGED <<cfg_vars, snapshots, can_buy, open_intents, budget,
                   cooldowns, emitted_intents, gate_block_count,
                   cooldown_block_count, events, exec_vars, fb_vars,
                   updates_done, snap_vars, env_vars, probe_vars>>

\* Mutant of HP_CountEmitted: the sent intent is not counted.
HP_CountEmitted_Skip ==
    /\ hp_pc = "emitted"
    /\ hp_pc' = "open_inc"
    /\ UNCHANGED <<cfg_vars, snapshots, gate_vars, chan_vars, exec_vars,
                   fb_vars, hp_tick, trigger_count, ticks_done, trigger_log,
                   updates_done, snap_vars, env_vars, sent_log, probe_vars>>

\* Ok(_): emitted_intents.fetch_add(1)
HP_CountEmitted ==
    /\ hp_pc = "emitted"
    /\ emitted_intents' = emitted_intents + 1
    /\ hp_pc' = "open_inc"
    /\ UNCHANGED <<cfg_vars, snapshots, can_buy, open_intents, budget,
                   cooldowns, dropped_intents, gate_block_count,
                   cooldown_block_count, chan_vars, exec_vars, fb_vars,
                   hp_tick, trigger_count, ticks_done, trigger_log,
                   updates_done, snap_vars, env_vars, sent_log, probe_vars>>

\* Ok(_): open_intents.fetch_add(1)
HP_IncOpen ==
    /\ hp_pc = "open_inc"
    /\ open_intents' = WrappingAdd1(open_intents)
    /\ hp_pc' = "budget_dec"
    /\ UNCHANGED <<cfg_vars, snapshots, can_buy, budget, cooldowns,
                   count_vars, chan_vars, exec_vars, fb_vars, hp_tick,
                   trigger_count, ticks_done, trigger_log, updates_done,
                   snap_vars, env_vars, sent_log, probe_vars>>

\* Ok(_): budget.fetch_sub(1)
HP_DecBudget ==
    /\ hp_pc = "budget_dec"
    /\ budget' = (IF budget = 0 THEN U64_MAX ELSE budget - 1)
    /\ hp_pc' = "stamp"
    /\ UNCHANGED <<cfg_vars, snapshots, can_buy, open_intents, cooldowns,
                   count_vars, chan_vars, exec_vars, fb_vars, hp_tick,
                   trigger_count, ticks_done, trigger_log, updates_done,
                   snap_vars, env_vars, sent_log, probe_vars>>

\* Ok(_): cooldowns[symbol_idx].store(tick.ts_unix_ms), and the return.
HP_StampCooldown ==
    /\ hp_pc = "stamp"
    /\ cooldowns' = [cooldowns EXCEPT ![hp_tick.symbol_id] = hp_tick.ts_unix_ms]
    /\ ReturnFromTick(hp_tick, TRUE)
    /\ UNCHANGED <<cfg_vars, snapshots, can_buy, open_intents, budget,
                   count_vars, chan_vars, exec_vars, fb_vars, updates_done,
                   snap_vars, env_vars, sent_log, probe_vars>>

\* update_snapshot, called by the producer between two process_tick calls.
UpdateSnapshot(symbol_id, px_e8, ts_unix_ms) ==
    /\ hp_pc = "idle"
    /\ updates_done < MaxUpdates
    /\ updates_done' = updates_done + 1
    /\ snapshots' = IF symbol_id < max_symbols
                    THEN [snapshots EXCEPT ![symbol_id] =
                             SnapshotAdd(snapshots[symbol_id], px_e8, ts_unix_ms)]
                    ELSE snapshots
    /\ append_log' = IF symbol_id < max_symbols
                     THEN [append_log EXCEPT ![symbol_id] =
                              Append(@, PricePoint(px_e8, ts_unix_ms))]
                     ELSE append_log
    /\ UNCHANGED <<cfg_vars, gate_vars, chan_vars, exec_vars, fb_vars,
                   hp_vars, env_vars, sent_log, w_pc, w_call, query,
                   probe_vars>>

\* Mutant of UpdateAggregates: an id past the table falls back on
\* instrument 0.
UpdateAggregates_FirstSlot(symbol_id, current_ts_ms) ==
    LET s == IF symbol_id < max_symbols THEN symbol_id ELSE 0
    IN  /\ hp_pc = "idle"
        /\ updates_done < MaxUpdates
        /\ updates_done' = updates_done + 1
        /\ snapshots' = [snapshots EXCEPT ![s] =
                             SnapshotUpdateAggregates(snapshots[s],
                                                      current_ts_ms)]
        /\ UNCHANGED <<cfg_vars, gate_vars, chan_vars, exec_vars, fb_vars,
                       hp_vars, snap_vars, probe_vars, env_vars, sent_log>>

\* HotPath::update_aggregates, called between two process_tick calls
\* (counted with the update_snapshot calls).
UpdateAggregates(symbol_id, current_ts_ms) ==
    /\ hp_pc = "idle"
    /\ updates_done < MaxUpdates
    /\ updates_done' = updates_done + 1
    /\ snapshots' = IF symbol_id < max_symbols
                    THEN [snapshots EXCEPT ![symbol_id] =
                             SnapshotUpdateAggregates(snapshots[symbol_id],
                                                      current_ts_ms)]
                    ELSE snapshots
    /\ UNCHANGED <<cfg_vars, gate_vars, chan_vars, exec_vars, fb_vars,
                   hp_vars, snap_vars, probe_vars, env_vars, sent_log>>

\* ------------------------------- the tick loop of run_shadow_benchmark
\* One iteration up to the call of try_emit_intent: update_snapshot for the
\* tick, then process_tick on the ring just published.  The previous
\* iteration has recorded its latency.
LoopTick(tick) ==
    LET appended ==
            IF tick.symbol_id < max_symbols
            THEN [snapshots EXCEPT ![tick.symbol_id] =
                     SnapshotAdd(snapshots[tick.symbol_id], tick.px_e8,
                                 tick.ts_unix_ms)]
            ELSE snapshots
    IN  /\ hp_pc = "idle"
        /\ ticks_done < MaxTicks
        /\ metrics.calls = ticks_done
        /\ snapshots' = appended
        /\ append_log' = IF tick.symbol_id < max_symbols
                         THEN [append_log EXCEPT ![tick.symbol_id] =
                                  Append(@, PricePoint(tick.px_e8,
                                                       tick.ts_unix_ms))]
                         ELSE append_log
        /\ IF ShouldSkip(tick)
           THEN ReturnFromTick(tick, FALSE)
           ELSE IF ReachesThreshold(ComputeReturn60s(appended[tick.symbol_id],
                                                     tick.ts_unix_ms))
                THEN /\ hp_pc' = "emit"
                     /\ hp_tick' = tick
                     /\ UNCHANGED <<trigger_count, ticks_done, trigger_log>>
                ELSE ReturnFromTick(tick, FALSE)
        /\ UNCHANGED <<cfg_vars, gate_vars, chan_vars, exec_vars, fb_vars,
                       updates_done, w_pc, w_call, query, probe_vars,
                       env_vars, sent_log>>

\* The end of an iteration: metrics.record(measurement.duration_micros());
\* an Err is printed and the loop goes on.
RecordLatency(latency_micros) ==
    LET r == MetricsRecord(metrics.histogram, latency_micros)
    IN  /\ hp_pc = "idle"
        /\ metrics.calls < ticks_done
        /\ metrics' = [histogram |-> r.histogram,
                       calls     |-> metrics.calls + 1,
                       errs      |-> metrics.errs + (IF r.ok THEN 0 ELSE 1)]
        /\ UNCHANGED <<cfg_vars, snapshots, gate_vars, chan_vars, exec_vars,
                       fb_vars, hp_vars, updates_done, snap_vars, flag_probe,
                       env_vars, sent_log>>

\* -------------------------------- update_snapshot on a maintenance thread
\* Mutant of UpdStore: the point is written into the published ring in
\* place, write_idx and count not yet advanced.
UpdStore_InPlace ==
    /\ w_pc = "store"
    /\ snapshots' =
          [snapshots EXCEPT ![w_call.symbol_id] =
              [w_call.current EXCEPT
                  !.prices = [w_call.current.prices EXCEPT
                                 ![w_call.current.write_idx + 1] =
                                     PricePoint(w_call.px_e8,
                                                w_call.ts_unix_ms)]]]
    /\ w_pc' = "idle"
    /\ w_call' = NoCall
    /\ updates_done' = updates_done + 1
    /\ UNCHANGED <<cfg_vars, gate_vars, chan_vars, exec_vars, fb_vars,
                   hp_vars, env_vars, sent_log, append_log, query,
                   probe_vars>>

\* update_snapshot: the bounds check and snapshots[symbol_id].load(); an
\* id out of range ends the call.
UpdLoad(symbol_id, px_e8, ts_unix_ms) ==
    /\ w_pc = "idle"
    /\ updates_done < SnapUpdates
    /\ IF symbol_id < max_symbols
       THEN /\ w_call' = [symbol_id |-> symbol_id, px_e8 |-> px_e8,
                          ts_unix_ms |-> ts_unix_ms,
                          current |-> snapshots[symbol_id]]
            /\ w_pc' = "store"
            /\ append_log' = [append_log EXCEPT ![symbol_id] =
                                 Append(@, PricePoint(px_e8, ts_unix_ms))]
            /\ UNCHANGED updates_done
       ELSE /\ updates_done' = updates_done + 1
            /\ UNCHANGED <<w_pc, w_call, append_log>>
    /\ UNCHANGED <<cfg_vars, snapshots, gate_vars, chan_vars, exec_vars,
                   fb_vars, hp_vars, env_vars, sent_log, query, probe_vars>>

\* update_snapshot: clone, add, snapshots[symbol_id].store(Arc::new(..)).
UpdStore ==
    /\ w_pc = "store"
    /\ snapshots' = [snapshots EXCEPT ![w_call.symbol_id] =
                        SnapshotAdd(w_call.current, w_call.px_e8,
                                    w_call.ts_unix_ms)]
    /\ w_pc' = "idle"
    /\ w_call' = NoCall
    /\ updates_done' = updates_done + 1
    /\ UNCHANGED <<cfg_vars, gate_vars, chan_vars, exec_vars, fb_vars,
                   hp_vars, env_vars, sent_log, append_log, query,
                   probe_vars>>

\* update_aggregates on the maintenance thread: the bounds check and
\* snapshots[symbol_id].load(); an id out of range ends the call.
AggLoad(symbol_id, current_ts_ms) ==
    /\ w_pc = "idle"
    /\ updates_done < SnapUpdates
    /\ IF symbol_id < max_symbols
       THEN /\ w_call' = [symbol_id |-> symbol_id, px_e8 |-> 0,
                          ts_unix_ms |-> current_ts_ms,
                          current |-> snapshots[symbol_id]]
            /\ w_pc' = "agg_store"
            /\ UNCHANGED updates_done
       ELSE /\ updates_done' = updates_done + 1
            /\ UNCHANGED <<w_pc, w_call>>
    /\ UNCHANGED <<cfg_vars, snapshots, gate_vars, chan_vars, exec_vars,
                   fb_vars, hp_vars, env_vars, sent_log, append_log, query,
                   probe_vars>>

\* update_aggregates: clone, update_aggregates(current_ts_ms),
\* snapshots[symbol_id].store(Arc::new(..)).
AggStore ==
    /\ w_pc = "agg_store"
    /\ snapshots' = [snapshots EXCEPT ![w_call.symbol_id] =
                        SnapshotUpdateAggregates(w_call.current,
                                                 w_call.ts_unix_ms)]
    /\ w_pc' = "idle"
    /\ w_call' = NoCall
    /\ updates_done' = updates_done + 1
    /\ UNCHANGED <<cfg_vars, gate_vars, chan_vars, exec_vars, fb_vars,
                   hp_vars, env_vars, sent_log, append_log, query,
                   probe_vars>>

\* ------------------------------------- a PriceSnapshot used directly
\* PriceSnapshot::add on the ring of instrument 0, before the ring is
\* queried.
RingAdd(px_e8, ts_unix_ms) ==
    /\ ~query.called
    /\ Len(append_log[0]) < RingAdds
    /\ snapshots' = [snapshots EXCEPT ![0] =
                        SnapshotAdd(snapshots[0], px_e8, ts_unix_ms)]
    /\ append_log' = [append_log EXCEPT ![0] =
                         Append(@, PricePoint(px_e8, ts_unix_ms))]
    /\ UNCHANGED <<cfg_vars, gate_vars, chan_vars, exec_vars, fb_vars,
                   hp_vars, updates_done, env_vars, sent_log, w_pc, w_call,
                   query, probe_vars>>

\* compute_return_60s(current_ts_ms) on the ring of instrument 0.
ComputeCall(current_ts_ms) ==
    /\ ~query.called
    /\ query' = [called |-> TRUE, current_ts_ms |-> current_ts_ms,
                 ret |-> ComputeReturn60s(snapshots[0], current_ts_ms),
                 scan |-> ScanLocals(snapshots[0], current_ts_ms)]
    /\ UNCHANGED <<cfg_vars, snapshots, gate_vars, chan_vars, exec_vars,
                   fb_vars, hp_vars, updates_done, env_vars, sent_log, w_pc,
                   w_call, append_log, probe_vars>>

\* Mutant of SetCanBuy: the store is left out.
SetCanBuy_NoStore(b) ==
    /\ toggles_done < MaxToggles
    /\ toggles_done' = toggles_done + 1
    /\ flag_probe' = [flag_probe EXCEPT !.last_set = b]
    /\ UNCHANGED <<cfg_vars, snapshots, gate_vars, chan_vars, exec_vars,
                   fb_vars, hp_vars, updates_done, snap_vars, metrics,
                   replenish_calls, replenished, sent_log>>

\* set_can_buy
SetCanBuy(b) ==
    /\ toggles_done < MaxToggles
    /\ toggles_done' = toggles_done + 1
    /\ can_buy' = b
    /\ flag_probe' = [flag_probe EXCEPT !.last_set = b]
    /\ UNCHANGED <<cfg_vars, snapshots, open_intents, budget, cooldowns,
                   count_vars, chan_vars, exec_vars, fb_vars, hp_vars,
                   updates_done, snap_vars, metrics, replenish_calls,
                   replenished, sent_log>>

\* get_can_buy
GetCanBuy ==
    /\ flag_probe' = [flag_probe EXCEPT !.called = TRUE, !.got = can_buy,
                                        !.expected = flag_probe.last_set]
    /\ UNCHANGED <<cfg_vars, snapshots, gate_vars, chan_vars, exec_vars,
                   fb_vars, hp_vars, updates_done, snap_vars, metrics,
                   env_vars, sent_log>>

\* AtomicU64::fetch_add(amount): wrapping.
WrappingAdd64(x, amount) ==
    IF amount > U64_MAX - x THEN amount - (U64_MAX - x) - 1 ELSE x + amount

\* replenish_budget: budget.fetch_add(amount)
ReplenishBudget(amount) ==
    /\ replenish_calls < MaxReplenish
    /\ replenish_calls' = replenish_calls + 1
    /\ replenished' = replenished + amount
    /\ budget' = WrappingAdd64(budget, amount)
    /\ UNCHANGED <<cfg_vars, snapshots, can_buy, open_intents, cooldowns,
                   count_vars, chan_vars, exec_vars, fb_vars, hp_vars,
                   updates_done, snap_vars, toggles_done, sent_log,
                   probe_vars>>

\* ---------------------------------------------------------- ExecutionMock
\* Mutant of ExecRecv: the newest intent of the channel is taken first.
ExecRecv_Newest ==
    /\ exec_pc = "recv"
    /\ intents # <<>>
    /\ exec_intent' = intents[Len(intents)]
    /\ intents' = SubSeq(intents, 1, Len(intents) - 1)
    /\ exec_pc' = "submit"
    /\ UNCHANGED <<cfg_vars, snapshots, gate_vars, events, submitted_count,
                   ack_count, fill_count, fb_vars, hp_vars, updates_done,
                   snap_vars, env_vars, sent_log, probe_vars>>

\* run: try_recv returned Ok(intent).
ExecRecv ==
    /\ exec_pc = "recv"
    /\ intents # <<>>
    /\ exec_intent' = Head(intents)
    /\ intents' = Tail(intents)
    /\ exec_pc' = "submit"
    /\ UNCHANGED <<cfg_vars, snapshots, gate_vars, events, submitted_count,
                   ack_count, fill_count, fb_vars, hp_vars, updates_done,
                   snap_vars, env_vars, sent_log, probe_vars>>

\* Mutant of AckTs: the delay is added in microseconds.
AckTs_Micros(intent) == intent.ts_unix_ms + ack_delay_us

\* process_intent: the three events' timestamps
AckTs(intent) == intent.ts_unix_ms + (ack_delay_us \div 1000)
FillTs(intent) == AckTs(intent) + (fill_delay_us \div 1000)

\* Mutant of ExecSubmit: the Submitted event is sent but not counted.
ExecSubmit_NoCount ==
    /\ exec_pc = "submit"
    /\ events' = TrySend(events, EventsCapacity,
                         OrderEvent("Submitted", exec_intent.symbol_id,
                                    exec_intent.px_e8, exec_intent.ts_unix_ms))
    /\ exec_pc' = "ack"
    /\ UNCHANGED <<cfg_vars, snapshots, gate_vars, intents, submitted_count,
                   ack_count, fill_count, exec_intent, fb_vars, hp_vars,
                   updates_done, snap_vars, env_vars, sent_log, probe_vars>>

\* process_intent: submitted_count.fetch_add(1), try_send(Submitted)
ExecSubmit ==
    /\ exec_pc = "submit"
    /\ submitted_count' = submitted_count + 1
    /\ events' = TrySend(events, EventsCapacity,
                         OrderEvent("Submitted", exec_intent.symbol_id,
                                    exec_intent.px_e8, exec_intent.ts_unix_ms))
    /\ exec_pc' = "ack"
    /\ UNCHANGED <<cfg_vars, snapshots, gate_vars, intents, ack_count,
                   fill_count, exec_intent, fb_vars, hp_vars, updates_done,
                   snap_vars, env_vars, sent_log, probe_vars>>

\* process_intent: ack_count.fetch_add(1), try_send(Ack)
ExecAck ==
    /\ exec_pc = "ack"
    /\ ack_count' = ack_count + 1
    /\ events' = TrySend(events, EventsCapacity,
                         OrderEvent("Ack", exec_intent.symbol_id,
                                    exec_intent.px_e8, AckTs(exec_intent)))
    /\ exec_pc' = "fill"
    /\ UNCHANGED <<cfg_vars, snapshots, gate_vars, intents, submitted_count,
                   fill_count, exec_intent, fb_vars, hp_vars, updates_done,
                   snap_vars, env_vars, sent_log, probe_vars>>

\* process_intent: fill_count.fetch_add(1), try_send(Fill), return true
ExecFill ==
    /\ exec_pc = "fill"
    /\ fill_count' = fill_count + 1
    /\ events' = TrySend(events, EventsCapacity,
                         OrderEvent("Fill", exec_intent.symbol_id,
                                    exec_intent.px_e8, FillTs(exec_intent)))
    /\ exec_pc' = "recv"
    /\ exec_intent' = NoIntent
    /\ UNCHANGED <<cfg_vars, snapshots, gate_vars, intents, submitted_count,
                   ack_count, fb_vars, hp_vars, updates_done, snap_vars,
                   env_vars, sent_log, probe_vars>>

\* ------------------------------------------------- event consumer thread
\* Mutant of FbRecv: every event leads to decrement_open_intents.
FbRecv_AnyEvent ==
    /\ fb_pc = "recv"
    /\ events # <<>>
    /\ events' = Tail(events)
    /\ fb_pc' = "fetch_sub"
    /\ fills_received' = fills_received
                             + (IF Head(events).kind = "Fill" THEN 1 ELSE 0)
    /\ UNCHANGED <<cfg_vars, snapshots, gate_vars, intents, exec_vars,
                   hp_vars, release_calls, updates_done, snap_vars, env_vars,
                   sent_log, probe_vars>>

\* event_rx.try_recv() returned Ok(event); a Fill leads to
\* decrement_open_intents.
FbRecv ==
    /\ fb_pc = "recv"
    /\ events # <<>>
    /\ events' = Tail(events)
    /\ fb_pc' = IF Head(events).kind = "Fill" THEN "fetch_sub" ELSE "recv"
    /\ fills_received' = fills_received
                             + (IF Head(events).kind = "Fill" THEN 1 ELSE 0)
    /\ UNCHANGED <<cfg_vars, snapshots, gate_vars, intents, exec_vars,
                   hp_vars, release_calls, updates_done, snap_vars, env_vars,
                   sent_log, probe_vars>>

\* decrement_open_intents: prev = open_intents.fetch_sub(1)
FbFetchSub ==
    /\ fb_pc = "fetch_sub"
    /\ open_intents' = WrappingSub1(open_intents)
    /\ release_calls' = release_calls + 1
    /\ fb_pc' = IF open_intents = 0 THEN "add_back" ELSE "recv"
    /\ UNCHANGED <<cfg_vars, snapshots, can_buy, budget, cooldowns,
                   count_vars, chan_vars, exec_vars, hp_vars, updates_done,
                   snap_vars, env_vars, sent_log, fills_received,
                   probe_vars>>

\* decrement_open_intents: prev == 0, open_intents.fetch_add(1)
FbAddBack ==
    /\ fb_pc = "add_back"
    /\ open_intents' = WrappingAdd1(open_intents)
    /\ fb_pc' = "recv"
    /\ UNCHANGED <<release_calls, cfg_vars, snapshots, can_buy, budget,
                   cooldowns, count_vars, chan_vars, exec_vars, hp_vars,
                   updates_done, snap_vars, env_vars, sent_log,
                   fills_received, probe_vars>>

\* ------------------------------------------- run_shadow_benchmark: shutdown
\* A Receiver's try_recv returns Disconnected once the channel is empty and
\* no Sender is left.  The senders of the intents channel are the
\* harness's intent_tx, dropped after the tick loop, and the clone stored
\* in the HotPath, which lives as long as the harness and the event
\* consumer hold their Arc<HotPath>.  The only sender of the events
\* channel is owned by the ExecutionMock, dropped when the execution
\* thread's closure returns.
IntentSendersLive ==
    hp_pc \notin {"join_event", "join_exec", "exit"} \/ intent_tx
EventSendersLive == exec_pc # "done"

\* The tick loop is over: drop(intent_tx), the report, event_handle.join().
ProducerDone ==
    /\ hp_pc = "idle"
    /\ ticks_done = MaxTicks
    /\ hp_pc' = "join_event"
    /\ UNCHANGED <<cfg_vars, snapshots, gate_vars, chan_vars, exec_vars,
                   fb_vars, hp_tick, trigger_count, ticks_done, trigger_log,
                   updates_done, snap_vars, env_vars, sent_log, probe_vars>>

\* run: try_recv returned Err(Disconnected); the thread ends.
ExecDisconnected ==
    /\ exec_pc = "recv"
    /\ intents = <<>>
    /\ ~IntentSendersLive
    /\ exec_pc' = "done"
    /\ UNCHANGED <<cfg_vars, snapshots, gate_vars, chan_vars, submitted_count,
                   ack_count, fill_count, exec_intent, fb_vars, hp_vars,
                   updates_done, snap_vars, env_vars, sent_log, probe_vars>>

\* event consumer: try_recv returned Err(Disconnected); the thread ends.
FbDisconnected ==
    /\ fb_pc = "recv"
    /\ events = <<>>
    /\ ~EventSendersLive
    /\ fb_pc' = "done"
    /\ UNCHANGED <<cfg_vars, snapshots, gate_vars, chan_vars, exec_vars,
                   release_calls, hp_vars, updates_done, snap_vars, env_vars,
                   sent_log, fills_received, probe_vars>>

\* event_handle.join() returns; exec_handle.join() is next.
JoinEvent ==
    /\ hp_pc = "join_event"
    /\ fb_pc = "done"
    /\ hp_pc' = "join_exec"
    /\ UNCHANGED <<cfg_vars, snapshots, gate_vars, chan_vars, exec_vars,
                   fb_vars, hp_tick, trigger_count, ticks_done, trigger_log,
                   updates_done, snap_vars, env_vars, sent_log, probe_vars>>

\* exec_handle.join() returns; std::process::exit(0).
JoinExec ==
    /\ hp_pc = "join_exec"
    /\ exec_pc = "done"
    /\ hp_pc' = "exit"
    /\ UNCHANGED <<cfg_vars, snapshots, gate_vars, chan_vars, exec_vars,
                   fb_vars, hp_tick, trigger_count, ticks_done, trigger_log,
                   updates_done, snap_vars, env_vars, sent_log, probe_vars>>

\* ---------------------------------------------------------- specifications
\* The steps of try_emit_intent after process_tick has found a trigger.
EmitStep ==
    \/ HP_CheckCooldown
    \/ HP_CheckBudget
    \/ HP_CheckOpen
    \/ HP_TrySend
    \/ HP_CountEmitted
    \/ HP_IncOpen
    \/ HP_DecBudget
    \/ HP_StampCooldown

ExecStep == ExecRecv \/ ExecSubmit \/ ExecAck \/ ExecFill

FeedbackStep == FbRecv \/ FbFetchSub \/ FbAddBack

\* The benchmark pipeline: producer, execution thread, event consumer.
\* Ticks on two instruments; the producer may append one falling point.
PipelineTicks == {tick \in Ticks : tick.symbol_id <= 1}
Init ==
    \E max_open \in {1, 2}, cooldown \in {0, 1} :
        InitWith(max_open, cooldown, MaxTicks, 1, TRUE)
Next ==
    \/ \E tick \in PipelineTicks : HP_ProcessTick(tick)
    \/ EmitStep
    \/ UpdateSnapshot(0, 100, LastTs)
    \/ ExecStep
    \/ FeedbackStep
Spec == Init /\ [][Next]_vars

\* The same pipeline in one configuration in which every counter moves: a
\* cooldown of 1 ms, two open intents allowed, channel capacity 1.
InitCounters == InitWith(2, 1, MaxTicks, 1, TRUE)
SpecCounters == InitCounters /\ [][Next]_vars

\* The hot path alone (nothing consumes the intents channel), over a range
\* of configurations, among them budget 2 for three triggers; the last
\* two have no intent sender, the very last with a gate that would reject
\* on every count. The ticks are on
\* three instruments and on one id past the table.
GateTicks == {tick \in Ticks : tick.symbol_id \in {0, 1, 2, max_symbols}}
InitGate ==
    \/ \E max_open \in {0, 1, MaxTicks}, cooldown \in {0, 1, 2, LastTs},
          init_budget \in {0, 1, MaxTicks}, capacity \in {1, MaxTicks} :
           InitWith(max_open, cooldown, init_budget, capacity, TRUE)
    \/ InitWith(MaxTicks, 0, 2, MaxTicks, TRUE)
    \/ InitWith(MaxTicks, 0, MaxTicks, MaxTicks, FALSE)
    \/ InitWith(0, LastTs, 0, MaxTicks, FALSE)
NextGate ==
    \/ \E tick \in GateTicks : HP_ProcessTick(tick)
    \/ EmitStep
    \/ \E s \in {0, max_symbols} : UpdateSnapshot(s, 100, LastTs)
SpecGate == InitGate /\ [][NextGate]_vars

\* The hot path with concurrent callers of set_can_buy, get_can_buy and
\* replenish_budget (a risk task, a maintenance task).
EnvTicks == {tick \in Ticks : tick.symbol_id \in {0, max_symbols}}
InitEnv ==
    \/ \E cooldown \in {0, 1}, init_budget \in {0, 1},
          capacity \in {1, MaxTicks} :
           InitWith(MaxTicks, cooldown, init_budget, capacity, TRUE)
    \/ InitWith(MaxTicks, 0, U64_MAX, MaxTicks, TRUE)
NextEnv ==
    \/ \E tick \in EnvTicks : HP_ProcessTick(tick)
    \/ EmitStep
    \/ \E b \in BOOLEAN : SetCanBuy(b)
    \/ GetCanBuy
    \/ \E amount \in 1 .. 2 : ReplenishBudget(amount)
SpecEnv == InitEnv /\ [][NextEnv]_vars

\* The benchmark harness from its first tick to process::exit: the pipeline
\* and the shutdown.  The second configuration is the harness without the
\* set_intent_sender call (the HotPath holds no sender, as HotPath::new
\* leaves it), where the Disconnected arms are reached.
InitShutdown ==
    \E wired \in BOOLEAN : InitWith(2, 0, MaxTicks, 1, wired)
NextShutdown ==
    \/ \E tick \in PipelineTicks : HP_ProcessTick(tick)
    \/ EmitStep
    \/ ExecStep
    \/ FeedbackStep
    \/ ProducerDone
    \/ ExecDisconnected
    \/ FbDisconnected
    \/ JoinEvent
    \/ JoinExec
SpecShutdown == InitShutdown /\ [][NextShutdown]_vars

\* The harness fed one instrument, with the event consumer thread
\* scheduled fairly: its loop polls try_recv without ever waiting.
NextConsumer ==
    \/ HP_ProcessTick(TradeTick(0, 106, LastTs))
    \/ EmitStep
    \/ ExecStep
    \/ FeedbackStep
    \/ ProducerDone
    \/ ExecDisconnected
    \/ FbDisconnected
    \/ JoinEvent
    \/ JoinExec
SpecConsumer ==
    /\ InitShutdown /\ [][NextConsumer]_vars
    /\ WF_vars(FeedbackStep) /\ WF_vars(FbDisconnected)

\* The hot path and the execution thread with nobody reading the events
\* channel (an ExecutionMock whose event receiver is drained afterwards).
InitExec ==
    \E capacity \in {1, MaxTicks} :
        InitWith(MaxTicks, 0, MaxTicks, capacity, TRUE)
NextExec ==
    \/ \E tick \in PipelineTicks : HP_ProcessTick(tick)
    \/ EmitStep
    \/ ExecStep
SpecExec == InitExec /\ [][NextExec]_vars

\* The hot path reading snapshots while one maintenance thread appends to
\* them, on instrument 0 and on an id past the table.
SnapTicks == {tick \in Ticks : tick.symbol_id = 0}
InitSnap == InitWith(MaxTicks, 0, MaxTicks, MaxTicks, TRUE)
NextSnap ==
    \/ \E tick \in SnapTicks : HP_ProcessTick(tick)
    \/ EmitStep
    \/ \E s \in {0, max_symbols}, p \in {100, 112} : UpdLoad(s, p, LastTs)
    \/ UpdStore
SpecSnap == InitSnap /\ [][NextSnap]_vars

\* Two threads writing snapshots of a freshly built HotPath: the tick
\* loop's thread calls update_snapshot, and a maintenance thread calls
\* update_snapshot and update_aggregates, on instrument 0 and on an id past
\* the table.
InitWriters == InitAll(MaxTicks, 0, MaxTicks, MaxTicks, TRUE, <<>>)
NextWriters ==
    \/ \E p \in {100, 106} : UpdateSnapshot(0, p, 1)
    \/ \E s \in {0, max_symbols}, p \in {100, 112} : UpdLoad(s, p, LastTs)
    \/ UpdStore
    \/ \E s \in {0, max_symbols} : AggLoad(s, LastTs)
    \/ AggStore
SpecWriters == InitWriters /\ [][NextWriters]_vars

\* A fresh ring, a sequence of add calls, then one compute_return_60s.
InitRing == InitAll(MaxTicks, 0, MaxTicks, MaxTicks, FALSE, <<>>)
NextRing ==
    \/ \E p \in RingPrices, t \in RingTimes : RingAdd(p, t)
    \/ \E now \in QueryTimes : ComputeCall(now)
SpecRing == InitRing /\ [][NextRing]_vars

\* The same ring, with prices at the end of the exact range of f64.
NextPrice ==
    \/ \E p \in BigPrices, t \in PriceTimes : RingAdd(p, t)
    \/ \E now \in QueryTimes : ComputeCall(now)
SpecPrice == InitRing /\ [][NextPrice]_vars

\* The tick loop on a freshly built HotPath (no pre-population), with a
\* risk task calling set_can_buy and a maintenance task
\* calling update_aggregates and update_snapshot.  The k-th tick of the
\* feed has timestamp k; the ticks are on instrument 0 and on an id past
\* the table.
FeedTicks ==
    {TradeTick(s, p, ticks_done + 1) : s \in {0, max_symbols}, p \in FeedPrices}
InitFeed ==
    \E init_budget \in {0, MaxTicks} :
        InitAll(MaxTicks, 0, init_budget, MaxTicks, TRUE, <<>>)
NextFeed ==
    \/ \E tick \in FeedTicks : LoopTick(tick)
    \/ EmitStep
    \/ RecordLatency(1)
    \/ \E b \in BOOLEAN : SetCanBuy(b)
    \/ \E s \in {0, max_symbols} : UpdateAggregates(s, ticks_done)
    \/ UpdateSnapshot(max_symbols, 100, ticks_done)
SpecFeed == InitFeed /\ [][NextFeed]_vars

\* The tick loop with its latency measurements, on a freshly built HotPath.
BenchTicks == {TradeTick(0, p, ticks_done + 1) : p \in {100, 106}}
InitBench == InitAll(MaxTicks, 0, MaxTicks, MaxTicks, TRUE, <<>>)
NextBench ==
    \/ \E tick \in BenchTicks : LoopTick(tick)
    \/ EmitStep
    \/ \E latency_micros \in Latencies : RecordLatency(latency_micros)
SpecBench == InitBench /\ [][NextBench]_vars

\* ----------------------------------------------------------------- claims
\* C1: for a HotPath with an intent sender, between process_tick calls the
\* four gate counters add up to the number of ticks for which process_tick
\* returned a trigger: every trigger is counted exactly once.
C1_CountersPartitionTriggers ==
    (intent_tx /\ hp_pc = "idle") =>
        /\ emitted_intents + dropped_intents + gate_block_count
               + cooldown_block_count = trigger_count
        /\ trigger_count = Len(trigger_log)

\* Three triggers, one emitted, one dropped on a full channel, one
\* rejected by the cooldown.
C1_Witness ==
    /\ intent_tx /\ hp_pc = "idle"
    /\ trigger_count = 3
    /\ emitted_intents = 1 /\ dropped_intents = 1 /\ cooldown_block_count = 1

\* C2: in every state of the pipeline, fill_count <= ack_count <=
\* submitted_count.
C2_FillAckSubmittedOrdered ==
    fill_count <= ack_count /\ ack_count <= submitted_count

\* The simulator is between the Ack and the Fill of its second intent.
C2_Witness ==
    submitted_count = 2 /\ ack_count = 2 /\ fill_count = 1 /\ exec_pc = "fill"

\* C3: when the intents channel is empty and neither process_tick nor
\* process_intent is in progress, submitted_count = emitted_intents.
C3_SubmittedEqualsEmitted ==
    (intents = <<>> /\ hp_pc = "idle" /\ exec_pc = "recv") =>
        submitted_count = emitted_intents

\* Quiescent after two emitted intents and one drop.
C3_Witness ==
    /\ intents = <<>> /\ hp_pc = "idle" /\ exec_pc = "recv"
    /\ emitted_intents = 2 /\ dropped_intents = 1

\* C4: with the producer, the execution thread and the event consumer
\* interleaved, open_intents never exceeds max_open_intents.
C4_OpenWithinMax == open_intents <= max_open_intents

\* C5: with a budget that was never exhausted, once the producer is between
\* ticks, the simulator has processed every sent intent and the event
\* consumer has consumed every event and released a slot for every Fill,
\* open_intents is 0.
C5_OpenReturnsToZero ==
    (/\ hp_pc = "idle" /\ budget > 0
     /\ intents = <<>> /\ exec_pc = "recv"
     /\ events = <<>> /\ fb_pc = "recv"
     /\ release_calls = fill_count) => open_intents = 0

\* The last admitted intent of an instrument, as the position in sent_log
\* (0 when the instrument has none).
LastSentIndex(symbol_id) ==
    LET idx == {i \in 1 .. Len(sent_log) : sent_log[i].symbol_id = symbol_id}
    IN  IF idx = {} THEN 0 ELSE CHOOSE i \in idx : \A k \in idx : k <= i

\* A step that ends the cooldown check of try_emit_intent for a trigger
\* that follows an admitted intent of its instrument by less than
\* cooldown_ms.
C6_TriggerInsideCooldown ==
    /\ intent_tx /\ hp_pc = "emit" /\ hp_pc' # "emit"
    /\ hp_tick.symbol_id < max_symbols
    /\ LastSentIndex(hp_tick.symbol_id) > 0
    /\ hp_tick.ts_unix_ms <
           sent_log[LastSentIndex(hp_tick.symbol_id)].ts_unix_ms + cooldown_ms

\* C6: two admitted intents of one instrument are at least cooldown_ms
\* apart; a trigger that arrives sooner after an admit is rejected and
\* counted in cooldown_block_count only; and two triggers of one instrument
\* closer than cooldown_ms, the first admitted, give emitted_intents = 1 and
\* cooldown_block_count = 1.
C6_CooldownSpacing ==
    /\ [](\A i, k \in 1 .. Len(sent_log) :
            (i < k /\ sent_log[i].symbol_id = sent_log[k].symbol_id) =>
                sent_log[k].ts_unix_ms >= sent_log[i].ts_unix_ms + cooldown_ms)
    /\ [][C6_TriggerInsideCooldown =>
            /\ cooldown_block_count' = cooldown_block_count + 1
            /\ hp_pc' = "idle" /\ trigger_count' = trigger_count + 1
            /\ UNCHANGED <<emitted_intents, dropped_intents,
                           gate_block_count, open_intents, budget, cooldowns,
                           intents, sent_log>>]_vars
    /\ []((/\ intent_tx /\ hp_pc = "idle" /\ Len(trigger_log) = 2
           /\ initial_budget >= 1 /\ max_open_intents >= 1
           /\ trigger_log[1].symbol_id = trigger_log[2].symbol_id
           /\ trigger_log[1].ts_unix_ms >= cooldown_ms
           /\ trigger_log[1].ts_unix_ms <= trigger_log[2].ts_unix_ms
           /\ trigger_log[2].ts_unix_ms <
                  trigger_log[1].ts_unix_ms + cooldown_ms) =>
              (emitted_intents = 1 /\ cooldown_block_count = 1))

\* Cooldown 2: the trigger at ts 2 was admitted, the one at ts 3 on the
\* same instrument was rejected by the cooldown.
C6_Witness ==
    /\ intent_tx /\ hp_pc = "idle" /\ cooldown_ms = 2
    /\ trigger_log = <<TradeTick(0, 106, 2), TradeTick(0, 106, 3)>>
    /\ Len(sent_log) = 1 /\ sent_log[1].ts_unix_ms = 2
    /\ emitted_intents = 1 /\ cooldown_block_count = 1

\* A step that starts a process_tick call.
ProcessTickStarts ==
    hp_pc = "idle" /\ (hp_pc' # "idle" \/ ticks_done' # ticks_done)

\* C7: a process_tick call that starts while can_buy is false returns at
\* once without a trigger: no intent is sent and the counters, the budget,
\* open_intents and the cooldown stamps are unchanged.
C7_KillSwitchBlocks ==
    [][(ProcessTickStarts /\ ~can_buy) =>
          /\ hp_pc' = "idle" /\ ticks_done' = ticks_done + 1
          /\ UNCHANGED <<trigger_count, trigger_log, intents, sent_log,
                         emitted_intents, dropped_intents, gate_block_count,
                         cooldown_block_count, budget, open_intents,
                         cooldowns>>]_vars

\* set_can_buy(false) was the only toggle, and a tick of instrument 0, whose
\* 60 s return is over the threshold, has been processed since without a
\* trigger.
C7_Witness ==
    /\ ~can_buy /\ toggles_done = 1 /\ hp_pc = "idle"
    /\ ticks_done = 1 /\ hp_tick = TradeTick(0, 106, 2)
    /\ trigger_count = 0 /\ emitted_intents = 0 /\ budget = initial_budget
    /\ initial_budget > 0

\* A step in which try_send finds the intents channel full.
SendFindsChannelFull ==
    hp_pc = "send" /\ hp_pc' # "send" /\ ~HasRoom(intents, queue_capacity)

C9_ThreeTriggersCapacityOne ==
    /\ intent_tx /\ hp_pc = "idle" /\ queue_capacity = 1
    /\ Len(trigger_log) = 3
    /\ \A i, k \in 1 .. 3 :
           i # k => trigger_log[i].symbol_id # trigger_log[k].symbol_id
    /\ gate_block_count = 0 /\ cooldown_block_count = 0

C10_BudgetZeroAlwaysGateBlock ==
    [][(intent_tx /\ budget = 0 /\ hp_pc \in {"emit", "budget"}) =>
          /\ \/ hp_pc = "emit" /\ hp_pc' = "budget"
                /\ gate_block_count' = gate_block_count
             \/ hp_pc' = "idle" /\ gate_block_count' = gate_block_count + 1
          /\ UNCHANGED <<cooldown_block_count, emitted_intents,
                         dropped_intents>>]_vars

\* C10, amended: with a sender set and the budget at 0, a trigger outside
\* its instrument's cooldown increments gate_block_count and no other
\* counter; a trigger inside the cooldown increments cooldown_block_count
\* and no other counter. Neither sends an intent.
C10_BudgetZeroAfterCooldown ==
    [][(intent_tx /\ budget = 0 /\ hp_pc \in {"emit", "budget"}) =>
          /\ IF hp_pc = "emit"
             THEN IF hp_tick.ts_unix_ms <
                        cooldowns[hp_tick.symbol_id] + cooldown_ms
                  THEN /\ hp_pc' = "idle"
                       /\ cooldown_block_count' = cooldown_block_count + 1
                       /\ gate_block_count' = gate_block_count
                       /\ trigger_count' = trigger_count + 1
                  ELSE /\ hp_pc' = "budget"
                       /\ UNCHANGED <<cooldown_block_count, gate_block_count,
                                      trigger_count>>
             ELSE /\ hp_pc' = "idle"
                  /\ gate_block_count' = gate_block_count + 1
                  /\ cooldown_block_count' = cooldown_block_count
                  /\ trigger_count' = trigger_count + 1
          /\ UNCHANGED <<emitted_intents, dropped_intents, budget,
                         open_intents, cooldowns, intents, sent_log>>]_vars

\* Budget 1, cooldown 2: the trigger at ts 2 took the last token, the one
\* at ts 3 on the same instrument was rejected by the cooldown, the one at
\* ts 3 on another instrument by the budget gate.
C10_Witness ==
    /\ intent_tx /\ hp_pc = "idle" /\ initial_budget = 1 /\ budget = 0
    /\ cooldown_ms = 2
    /\ trigger_log = <<TradeTick(0, 106, 2), TradeTick(0, 106, 3),
                       TradeTick(1, 106, 3)>>
    /\ emitted_intents = 1 /\ cooldown_block_count = 1
    /\ gate_block_count = 1

\* C11: with max_open_intents = 0 no intent is ever emitted, whatever the
\* ticks: emitted_intents stays 0 and the intents channel stays empty.
C11_ZeroMaxOpenEmitsNothing ==
    max_open_intents = 0 =>
        (emitted_intents = 0 /\ intents = <<>> /\ sent_log = <<>>)

\* max_open_intents = 0, no cooldown and budget for every tick: three
\* triggers reached the open-intent check and were rejected there.
C11_Witness ==
    /\ max_open_intents = 0 /\ intent_tx /\ hp_pc = "idle"
    /\ cooldown_ms = 0 /\ budget = 3 /\ trigger_count = 3
    /\ gate_block_count = 3 /\ intents = <<>>

\* C12: in the benchmark harness the shutdown always goes through: at every
\* point before process::exit some thread has a step to take (the execution
\* thread sees the intents channel closed once the producer has dropped its
\* sender, the event consumer then sees the events channel closed, both
\* joins return).  A thread with no step polls an empty channel for ever.
C12_HarnessReachesExit == hp_pc = "exit" \/ ENABLED NextShutdown

\* What the claims compare of an event, and the events of one intent.
EventView(e) == <<e.kind, e.symbol_id, e.px_e8>>
EventsOf(intent, kinds) ==
    [i \in 1 .. Len(kinds) |-> <<kinds[i], intent.symbol_id, intent.px_e8>>]

\* The events of the first n sent intents, three each, in sending order.
RECURSIVE ExpectedEvents(_)
ExpectedEvents(n) ==
    IF n = 0 THEN <<>>
    ELSE ExpectedEvents(n - 1)
             \o EventsOf(sent_log[n], <<"Submitted", "Ack", "Fill">>)

\* Intents the simulator has finished, and the events it has sent so far
\* for the one in hand.
IntentsProcessed ==
    Len(sent_log) - Len(intents) - (IF exec_pc = "recv" THEN 0 ELSE 1)
EventsInHand ==
    CASE exec_pc = "ack"  -> EventsOf(exec_intent, <<"Submitted">>)
      [] exec_pc = "fill" -> EventsOf(exec_intent, <<"Submitted", "Ack">>)
      [] OTHER            -> <<>>

\* C13: as long as every event found room, the events channel (read by
\* nobody) holds, for each processed intent in arrival order, Submitted,
\* Ack, Fill with the intent's symbol_id and px_e8, and the counters are
\* the numbers of Submitted, Ack and Fill events sent: N intents give 3N
\* events and counters N, N, N.
C13_ThreeEventsPerIntentInOrder ==
    LET expected == ExpectedEvents(IntentsProcessed) \o EventsInHand
    IN  Len(expected) <= EventsCapacity =>
            /\ [i \in 1 .. Len(events) |-> EventView(events[i])] = expected
            /\ fill_count = IntentsProcessed
            /\ ack_count = fill_count + (IF exec_pc = "fill" THEN 1 ELSE 0)
            /\ submitted_count =
                   fill_count + (IF exec_pc \in {"ack", "fill"} THEN 1 ELSE 0)

\* Two intents on different instruments processed: six events.
C13_Witness ==
    /\ exec_pc = "recv" /\ fill_count = 2 /\ Len(events) = 6
    /\ Len(sent_log) = 2 /\ sent_log[1].symbol_id # sent_log[2].symbol_id
    /\ events[4].symbol_id = sent_log[2].symbol_id

\* A step in which the simulator's try_send finds the events channel full.
EventSendFindsChannelFull ==
    /\ exec_pc \in {"submit", "ack", "fill"} /\ exec_pc' # exec_pc
    /\ ~HasRoom(events, EventsCapacity)

\* Every counter the program keeps, added up.
AllCounters ==
    dropped_intents + emitted_intents + gate_block_count
        + cooldown_block_count + submitted_count + ack_count + fill_count

\* C14: when the events channel is full the simulator's send does not
\* block, the simulator goes on to its next event or intent, and the
\* dropped event is counted: besides the increment of submitted, ack or
\* fill that every event gets, some counter goes up for the drop.
C14_EventDropCounted ==
    [][EventSendFindsChannelFull =>
          /\ exec_pc' = CASE exec_pc = "submit" -> "ack"
                          [] exec_pc = "ack"    -> "fill"
                          [] exec_pc = "fill"   -> "recv"
          /\ events' = events
          /\ AllCounters' >= AllCounters + 2]_vars

\* C15: process_tick never waits on another thread: while a call is in
\* progress the hot path has a step of its own to take, a full intents
\* channel included; and on a full channel it returns at once, with the
\* channel as it was, the intent lost, and dropped_intents up by one.
C15_HotPathNeverWaits ==
    /\ [](hp_pc \in {"emit", "budget", "open", "send", "emitted", "open_inc",
                      "budget_dec", "stamp"} => ENABLED EmitStep)
    /\ [][SendFindsChannelFull =>
            /\ hp_pc' = "idle" /\ ticks_done' = ticks_done + 1
            /\ intents' = intents /\ sent_log' = sent_log
            /\ dropped_intents' = dropped_intents + 1]_vars

\* The simulator is in the middle of the first intent, the second fills
\* the channel, and the third trigger was dropped without waiting.
C15_Witness ==
    /\ hp_pc = "idle" /\ dropped_intents = 1 /\ emitted_intents = 2
    /\ Len(intents) = queue_capacity /\ exec_pc = "ack"
    /\ trigger_count = 3 /\ hp_tick = trigger_log[3]

\* The lengths k for which the published ring of an instrument is the
\* ring made by the first k appends of its writer.
PublishedPrefixes(s) ==
    {k \in 0 .. Len(append_log[s]) :
        snapshots[s] = AddAll(NewSnapshot, SubSeq(append_log[s], 1, k))}

\* C16: with one writer in update_snapshot and the hot path reading, the
\* snapshot of an instrument that a load returns is, in every state, the
\* ring made by a prefix of the writer's appends, never a ring in between;
\* and from one state to the next the prefix does not get shorter, so
\* successive loads see prefixes of non-decreasing length.
C16_LoadsSeeGrowingPrefixes ==
    /\ [](\A s \in Symbols : PublishedPrefixes(s) # {})
    /\ [][\A s \in Symbols :
            \E k \in PublishedPrefixes(s) :
                \E n \in PublishedPrefixes(s)' : k <= n]_vars

\* The writer is between load and store of its fifth append to instrument
\* 0 (the ring has wrapped), and a process_tick call has loaded the ring
\* of the first four.
C16_Witness ==
    /\ w_pc = "store" /\ w_call.symbol_id = 0
    /\ Len(append_log[0]) = 5 /\ PublishedPrefixes(0) = {4}
    /\ hp_pc = "emit" /\ hp_tick.symbol_id = 0

\* The slots of the ring under test that hold a point, those of them with
\* a timestamp in [now - window, now], and the points themselves.
StoredSlots == 1 .. snapshots[0].count
StoredPoints == {snapshots[0].prices[i] : i \in StoredSlots}
InWindowSlots(now) ==
    {i \in StoredSlots :
        /\ snapshots[0].prices[i].ts_unix_ms
               >= SaturatingSub(now, snapshots[0].window_ms)
        /\ snapshots[0].prices[i].ts_unix_ms <= now}

\* C17: compute_return_60s returns None whenever fewer than two stored
\* points have a timestamp in [now - window, now], and whenever the oldest
\* point it selected has price 0; a ring of several points with only one
\* in the window gives None, not a return of 0 %.
C17_AbsentUnlessTwoInWindow ==
    query.called =>
        ((\/ Cardinality(InWindowSlots(query.current_ts_ms)) < 2
          \/ query.scan.oldest_price = 0) => ~query.ret.some)

\* C18: on a fresh ring, one add followed by compute_return_60s at any
\* time gives None.
C18_SingleAddAbsent ==
    (query.called /\ Len(append_log[0]) = 1) => ~query.ret.some

\* One point with a positive price, inside the window of the query.
C18_Witness ==
    /\ query.called /\ query.current_ts_ms = 4
    /\ append_log[0] = <<PricePoint(100, 3)>>
    /\ snapshots[0].count = 1 /\ ~query.ret.some

\* A set of points in ascending order of timestamp (distinct timestamps).
RECURSIVE SortByTs(_)
SortByTs(points) ==
    IF points = {} THEN <<>>
    ELSE LET first == CHOOSE p \in points :
                          \A q \in points : p.ts_unix_ms <= q.ts_unix_ms
         IN  <<first>> \o SortByTs(points \ {first})

\* The ring holds at least two points, all in the window of the query, with
\* pairwise distinct timestamps.
DistinctInWindow ==
    /\ query.called
    /\ snapshots[0].count >= 2
    /\ InWindowSlots(query.current_ts_ms) = StoredSlots
    /\ \A i, k \in StoredSlots :
           i # k => snapshots[0].prices[i].ts_unix_ms
                       # snapshots[0].prices[k].ts_unix_ms

\* C19: oldest and newest are chosen by timestamp, not by slot: for a ring
\* of in-window points with distinct timestamps, in whatever order they
\* were added and wherever the ring has wrapped to, the result is the
\* return from the point of least timestamp to the point of greatest
\* timestamp (None if the former's price is 0), and is the result for the
\* same points added in ascending order of timestamp.
C19_SelectionByTimestamp ==
    DistinctInWindow =>
        LET sorted == SortByTs(StoredPoints)
            oldest == sorted[1]
            newest == sorted[Len(sorted)]
        IN  /\ query.ret = IF oldest.px_e8 > 0
                           THEN [some |-> TRUE, new_px |-> newest.px_e8,
                                 old_px |-> oldest.px_e8]
                           ELSE NoneRet
            /\ query.ret = ComputeReturn60s(AddAll(NewSnapshot, sorted),
                                            query.current_ts_ms)

\* Four adds into the ring of three slots: the slots hold ts 3, 4, 2, the
\* oldest point in the last slot, the newest in the middle one.
C19_Witness ==
    /\ DistinctInWindow /\ query.current_ts_ms = 4
    /\ Len(append_log[0]) = 4
    /\ snapshots[0].prices = <<PricePoint(100, 3), PricePoint(106, 4),
                               PricePoint(100, 2)>>
    /\ query.ret = [some |-> TRUE, new_px |-> 106, old_px |-> 100]

\* C20: the newest point compute_return_60s(now) selects has a timestamp
\* <= now: a stored point later than now is never the newest price.
C20_NewestNotAfterNow ==
    (query.called /\ query.ret.some) =>
        query.scan.newest_ts <= query.current_ts_ms

\* Order and sign of two present returns, each the f64 quotient
\* (new_px - old_px) / old_px * 100.0 of converted prices, old_px > 0.
\* The f64 subtraction, division and multiplication round monotonically
\* and give zero only from a zero difference (a difference is 0 or at
\* least 1, a price below 2^64), so order and sign are those of the exact
\* quotients.
RetLeq(a, b) ==
    (a.new_px - a.old_px) * b.old_px <= (b.new_px - b.old_px) * a.old_px
Sign(x) == IF x > 0 THEN 1 ELSE IF x < 0 THEN -1 ELSE 0
RetSign(a) == Sign(a.new_px - a.old_px)

\* The ring under test with the price in slot i replaced by p.
WithPrice(i, p) == [snapshots[0] EXCEPT !.prices[i].px_e8 = p]

\* The price in slot i is replaced by p and the query repeated: both
\* returns are present, the oldest point selected is the same, and the
\* newest price selected has not fallen.
NewestRaised(i, p) ==
    LET now   == query.current_ts_ms
        other == ScanLocals(WithPrice(i, p), now)
    IN  /\ query.called /\ query.ret.some
        /\ ComputeReturn60s(WithPrice(i, p), now).some
        /\ other.oldest_price = query.scan.oldest_price
        /\ other.oldest_ts = query.scan.oldest_ts
        /\ other.newest_ts = query.scan.newest_ts
        /\ query.scan.newest_price <= other.newest_price

\* With the oldest point fixed, the return does not fall when the newest
\* price rises.
MonotoneInNewestPrice ==
    \A i \in StoredSlots, p \in BigPrices :
        NewestRaised(i, p) =>
            RetLeq(query.ret,
                   ComputeReturn60s(WithPrice(i, p), query.current_ts_ms))

\* C21: with the oldest in-window point fixed (price > 0), the return is
\* non-decreasing in the newest point's price, and its sign is the sign
\* of newest price minus oldest price.
C21_MonotoneInNewestPrice ==
    /\ MonotoneInNewestPrice
    /\ (query.called /\ query.ret.some) =>
           RetSign(query.ret)
               = Sign(query.scan.newest_price - query.scan.oldest_price)

\* C21 as amended: the return is non-decreasing in the newest point's
\* price; its sign is the sign of newest price minus oldest price when
\* both prices are at most 2^53, and that sign or zero beyond.
C21_MonotoneSignUpToRounding ==
    /\ MonotoneInNewestPrice
    /\ (query.called /\ query.ret.some) =>
           LET diff == query.scan.newest_price - query.scan.oldest_price
           IN  /\ RetSign(query.ret) \in {0, Sign(diff)}
               /\ (/\ query.scan.newest_price <= F64_EXACT_MAX
                   /\ query.scan.oldest_price <= F64_EXACT_MAX) =>
                      RetSign(query.ret) = Sign(diff)

\* A fall of the price (2^53 at ts 2, 2^53 - 1 at ts 3, return < 0) whose
\* newest price raised to 2^53 + 1 gives a return of 0: the newest price
\* is above the oldest, and converts to the same f64.
C21_Witness ==
    /\ append_log[0] = <<PricePoint(F64_EXACT_MAX, 2),
                         PricePoint(F64_EXACT_MAX - 1, 3)>>
    /\ query.current_ts_ms = 4
    /\ RetSign(query.ret) = -1
    /\ NewestRaised(2, F64_EXACT_MAX + 1)
    /\ RetSign(ComputeReturn60s(WithPrice(2, F64_EXACT_MAX + 1), 4)) = 0

\* A step in which the tick loop calls process_tick, and one in which a
\* process_tick call returns.
TickCallStarts ==
    hp_pc = "idle" /\ (hp_pc' = "emit" \/ ticks_done' = ticks_done + 1)
TickCallReturns == ticks_done' = ticks_done + 1

\* The feed (100 @1), (104 @2), (106 @3) on instrument 0 has been
\* processed with the kill switch never touched and budget for every tick.
ScenarioFed ==
    /\ hp_pc = "idle" /\ ticks_done = 3 /\ intent_tx
    /\ append_log[0] = <<PricePoint(100, 1), PricePoint(104, 2),
                         PricePoint(106, 3)>>
    /\ toggles_done = 0 /\ initial_budget = MaxTicks /\ cooldown_ms = 0

\* C22: process_tick goes on to try_emit_intent, and then returns a
\* trigger whatever the gate decides, exactly when can_buy is true, the
\* tick's symbol_id is below max_symbols and the 60 s return of the loaded
\* snapshot is present and at least threshold_pct; otherwise it returns no
\* trigger.  With each tick appended before it is processed, the feed 100,
\* 104, 106 on one instrument triggers on the third tick only and
\* emitted_intents is 1.
C22_TriggerIffThreshold ==
    /\ [][TickCallStarts =>
            (hp_pc' = "emit" <=>
                /\ can_buy
                /\ hp_tick'.symbol_id < max_symbols
                /\ LET ret == ComputeReturn60s(
                                  snapshots'[hp_tick'.symbol_id],
                                  hp_tick'.ts_unix_ms)
                   IN  /\ ret.some
                       /\ (ret.new_px - ret.old_px) * 100
                              >= threshold_pct * ret.old_px)]_vars
    /\ [][TickCallReturns =>
            /\ hp_pc # "idle" => trigger_count' = trigger_count + 1
            /\ hp_pc = "idle" => trigger_count' = trigger_count]_vars
    /\ [](ScenarioFed =>
            /\ trigger_log = <<TradeTick(0, 106, 3)>>
            /\ trigger_count = 1
            /\ emitted_intents = 1)

\* The scenario's feed has gone through, with one trigger and one intent.
C22_Witness ==
    /\ ScenarioFed /\ trigger_count = 1 /\ emitted_intents = 1
    /\ sent_log = <<OrderIntent(0, "Buy", 106, 3)>>

Min(a, b) == IF a <= b THEN a ELSE b

\* C23: with initial budget b and no replenish, emitted_intents never
\* exceeds b; and where neither the open-intent limit nor the channel can
\* reject, of the triggers that passed the cooldown check the first b were
\* emitted and every further one was counted in gate_block_count.
C23_BudgetCapsEmitted ==
    /\ intent_tx => (emitted_intents <= initial_budget
                       /\ Len(sent_log) <= initial_budget)
    /\ (/\ intent_tx /\ hp_pc = "idle"
        /\ max_open_intents = MaxTicks /\ queue_capacity = MaxTicks) =>
           LET passed == trigger_count - cooldown_block_count
           IN  /\ emitted_intents = Min(initial_budget, passed)
               /\ gate_block_count = passed - emitted_intents
               /\ budget = initial_budget - emitted_intents

\* Budget 2 and three triggers on three instruments: two intents, one gate
\* block.
C23_Witness ==
    /\ intent_tx /\ hp_pc = "idle" /\ initial_budget = 2 /\ cooldown_ms = 0
    /\ trigger_log = <<TradeTick(0, 106, 2), TradeTick(1, 106, 2),
                       TradeTick(2, 106, 2)>>
    /\ emitted_intents = 2 /\ gate_block_count = 1
    /\ cooldown_block_count = 0 /\ dropped_intents = 0 /\ budget = 0

\* A step that is a whole call with a symbol_id past the table: an
\* iteration of the tick loop (update_snapshot, then process_tick), an
\* update_aggregates or an update_snapshot.
OutOfRangeCall ==
    \/ \E tick \in FeedTicks :
           tick.symbol_id >= max_symbols /\ LoopTick(tick)
    \/ \E s \in max_symbols .. max_symbols + 1, t \in 0 .. MaxTicks :
           \/ UpdateAggregates(s, t)
           \/ UpdateSnapshot(s, 100, t)

\* C24: a tick or an update with symbol_id >= max_symbols is skipped
\* silently: process_tick returns no trigger, the updates return, and no
\* snapshot, counter, cooldown stamp, budget, open_intents or channel
\* changes.
C24_OutOfRangeSkipped ==
    [][OutOfRangeCall =>
          /\ hp_pc' = "idle"
          /\ UNCHANGED <<snapshots, append_log, can_buy, open_intents, budget,
                         cooldowns, dropped_intents, emitted_intents,
                         gate_block_count, cooldown_block_count, intents,
                         events, sent_log, trigger_count, trigger_log>>]_vars

\* An out-of-range tick has been processed and a maintenance call made,
\* after the ring of instrument 0 got the two points of a trigger.
C24_Witness ==
    /\ hp_pc = "idle" /\ hp_tick.symbol_id = max_symbols
    /\ ticks_done = 3 /\ updates_done = 1
    /\ snapshots[0].count = 2 /\ snapshots[0].ret_15m = NoneRet
    /\ trigger_count = 1 /\ can_buy

\* C25: recording a latency above the histogram's maximum succeeds (the
\* value is stored, clamped), so the histogram's sample count is the
\* number of record calls, one per processed tick.
C25_EveryRecordIsCounted ==
    /\ metrics.errs = 0
    /\ MetricsCount(metrics.histogram) = metrics.calls
    /\ hp_pc = "idle" => metrics.calls \in {ticks_done - 1, ticks_done}

\* C26: can_buy is true on construction, and a get_can_buy returns the
\* argument of the last set_can_buy before it (true if there was none),
\* whatever the sequence of sets.
C26_FlagReadsLastSet ==
    /\ toggles_done = 0 => can_buy
    /\ can_buy = flag_probe.last_set
    /\ flag_probe.called => flag_probe.got = flag_probe.expected

\* set_can_buy(false), a get_can_buy that returned false, then
\* set_can_buy(true).
C26_Witness ==
    /\ flag_probe.called /\ ~flag_probe.got /\ ~flag_probe.expected
    /\ toggles_done = 2 /\ can_buy /\ flag_probe.last_set

\* The tick of the try_emit_intent call in progress is inside the cooldown
\* of its instrument.
TickInsideCooldown ==
    hp_tick.ts_unix_ms < cooldowns[hp_tick.symbol_id] + cooldown_ms

\* A blocked trigger: the call returns, the counter named is incremented,
\* and nothing else of the gate changes and nothing is sent.
BlockedAt(counter) ==
    /\ hp_pc' = "idle"
    /\ cooldown_block_count' =
           cooldown_block_count + (IF counter = "cooldown" THEN 1 ELSE 0)
    /\ gate_block_count' =
           gate_block_count + (IF counter = "gate" THEN 1 ELSE 0)
    /\ UNCHANGED <<emitted_intents, dropped_intents, budget, open_intents,
                   cooldowns, intents, sent_log>>

\* C27: the gate checks run in the order cooldown, budget, open-intent
\* limit, and the first that fails decides: a trigger inside the cooldown
\* increments cooldown_block_count only, whatever the budget and
\* open_intents; one that passes the cooldown with budget 0 increments
\* gate_block_count only, whatever open_intents; one that passes both with
\* open_intents >= max_open_intents increments gate_block_count only.
C27_FirstFailingCheckDecides ==
    /\ [][(intent_tx /\ hp_pc = "emit" /\ hp_tick.symbol_id < max_symbols) =>
            IF TickInsideCooldown THEN BlockedAt("cooldown")
            ELSE hp_pc' = "budget" /\ UNCHANGED count_vars]_vars
    /\ [][hp_pc = "budget" =>
            IF budget = 0 THEN BlockedAt("gate")
            ELSE hp_pc' = "open" /\ UNCHANGED count_vars]_vars
    /\ [][hp_pc = "open" =>
            IF open_intents >= max_open_intents THEN BlockedAt("gate")
            ELSE hp_pc' = "send" /\ UNCHANGED count_vars]_vars

\* Cooldown 3, budget 0 and open-intent limit 0: the trigger at ts 2 fails
\* all three checks and is counted as a cooldown block.
C27_Witness ==
    /\ intent_tx /\ hp_pc = "idle" /\ cooldown_ms = 3
    /\ budget = 0 /\ max_open_intents = 0
    /\ trigger_log = <<TradeTick(0, 106, 2)>>
    /\ cooldown_block_count = 1 /\ gate_block_count = 0

\* C28: decrement_open_intents is a saturating decrement: at
\* open_intents > 0 it lowers it by one, at 0 it leaves it 0, and no
\* wrapped-around value is ever visible in open_intents.
C28_DecrementSaturates ==
    /\ [](open_intents # U32_MAX)
    /\ [][release_calls' = release_calls + 1 =>
            open_intents' = IF open_intents > 0 THEN open_intents - 1
                                                ELSE 0]_vars

\* The intent an event of the events channel belongs to: while nobody
\* reads the channel, its i-th event is one of the three of the
\* ((i - 1) div 3 + 1)-th intent sent.
IntentOfEvent(i) == sent_log[(i - 1) \div 3 + 1]

\* C29: event timestamps are a function of the intent alone: Submitted has
\* the intent's ts, Ack that plus ack_delay_us div 1000, Fill the Ack's
\* plus fill_delay_us div 1000, so Submitted.ts <= Ack.ts <= Fill.ts; and
\* two equal intents give equal events.
C29_EventTimestampsFromIntent ==
    /\ \A i \in 1 .. Len(events) :
           LET e  == events[i]
               ts == IntentOfEvent(i).ts_unix_ms
           IN  /\ e.kind = "Submitted" => e.ts_unix_ms = ts
               /\ e.kind = "Ack" =>
                      e.ts_unix_ms = ts + (ack_delay_us \div 1000)
               /\ e.kind = "Fill" =>
                      e.ts_unix_ms = ts + (ack_delay_us \div 1000)
                                        + (fill_delay_us \div 1000)
    /\ \A i, k \in 1 .. Len(events) :
           (i < k /\ IntentOfEvent(i) = IntentOfEvent(k)) =>
               events[i].ts_unix_ms <= events[k].ts_unix_ms
    /\ \A i, k \in 1 .. Len(events) :
           (IntentOfEvent(i) = IntentOfEvent(k) /\ i % 3 = k % 3) =>
               events[i] = events[k]

\* The same intent was sent and processed twice: six events, the last
\* three equal to the first three.
C29_Witness ==
    /\ Len(sent_log) = 2 /\ sent_log[1] = sent_log[2]
    /\ Len(events) = 6 /\ exec_pc = "recv"
    /\ SubSeq(events, 1, 3) = SubSeq(events, 4, 6)
    /\ events[3].kind = "Fill"
    /\ events[3].ts_unix_ms = sent_log[1].ts_unix_ms

\* C30: the event consumer calls decrement_open_intents once for each Fill
\* it receives and for no other event: its calls are the Fills received,
\* less the one whose call is about to be made; and once the events
\* channel is closed (its sender dropped) and empty, the consumer
\* terminates.
C30_OneReleasePerFill ==
    /\ [](release_calls =
             fills_received - (IF fb_pc = "fetch_sub" THEN 1 ELSE 0))
    /\ [](fb_pc = "done" => events = <<>> /\ ~EventSendersLive)
    /\ (~EventSendersLive /\ events = <<>>) ~> (fb_pc = "done")

\* Two intents went through: the consumer has received six events, two of
\* them Fills, and made two decrement_open_intents calls.
C30_Witness ==
    /\ fb_pc = "recv" /\ events = <<>> /\ exec_pc = "recv"
    /\ submitted_count = 2 /\ ack_count = 2 /\ fill_count = 2
    /\ fills_received = 2 /\ release_calls = 2

\* The points of a sequence as a bag (a point may have been appended
\* twice), and the last k points of a sequence of appended points.
RECURSIVE BagOfSeq(_)
BagOfSeq(points) ==
    IF points = <<>> THEN [x \in {} |-> 0]
    ELSE LET rest == BagOfSeq(Tail(points))
             h    == Head(points)
         IN  [x \in DOMAIN rest \cup {h} |->
                 (IF x \in DOMAIN rest THEN rest[x] ELSE 0)
                     + (IF x = h THEN 1 ELSE 0)]
LastAppended(points, k) == SubSeq(points, Len(points) - k + 1, Len(points))

\* C31: after n add calls on a ring of capacity C, count = min(n, C),
\* write_idx = n mod C, and the ring holds exactly the last min(n, C)
\* appended points, the k-th appended in slot (k - 1) mod C: once the ring
\* is full an add overwrites the point appended longest ago.
C31_RingHoldsLastAppended ==
    LET ring == snapshots[0]
        C    == Len(ring.prices)
        n    == Len(append_log[0])
    IN  /\ ring.count = Min(n, C)
        /\ ring.write_idx = n % C
        /\ ring.count <= C /\ ring.write_idx < C
        /\ \A k \in (n - Min(n, C) + 1) .. n :
               ring.prices[((k - 1) % C) + 1] = append_log[0][k]
        /\ BagOfSeq([i \in 1 .. ring.count |-> ring.prices[i]])
               = BagOfSeq(LastAppended(append_log[0], Min(n, C)))

\* One add more than the ring has slots: the first appended point has
\* been overwritten by the last.
C31_Witness ==
    /\ Len(append_log[0]) = RingCapacity + 1
    /\ snapshots[0].count = RingCapacity /\ snapshots[0].write_idx = 1
    /\ snapshots[0].prices[1] = append_log[0][RingCapacity + 1]
    /\ snapshots[0].prices[1] # append_log[0][1]

\* The intent try_emit_intent builds for a tick, and the ticks that
\* reached try_emit_intent so far: those whose process_tick call returned
\* a trigger, and the one of the call in progress.
IntentOfTick(tick) ==
    OrderIntent(tick.symbol_id, "Buy", tick.px_e8, tick.ts_unix_ms)
TriggeredSoFar ==
    IF hp_pc = "idle" THEN trigger_log ELSE Append(trigger_log, hp_tick)

\* a is b with some of its elements left out (the order kept).
RECURSIVE IsSubSeq(_, _)
IsSubSeq(a, b) ==
    IF a = <<>> THEN TRUE
    ELSE IF b = <<>> THEN FALSE
    ELSE IF Head(a) = Head(b) THEN IsSubSeq(Tail(a), Tail(b))
    ELSE IsSubSeq(a, Tail(b))

\* C32: the k-th intent the simulator receives is the k-th intent the hot
\* path sent (so the arrival order is the sending order and no intent is
\* received twice), the channel holds the sent intents not yet received in
\* sending order, and the sent intents are, in order, Buy intents with the
\* symbol_id, px_e8 and timestamp of ticks that triggered.
C32_IntentsArriveInSendingOrder ==
    /\ [][(exec_pc = "recv" /\ exec_pc' = "submit") =>
            /\ exec_intent' = sent_log[submitted_count + 1]
            /\ intents' = Tail(intents)]_vars
    /\ [](intents = SubSeq(sent_log, Len(sent_log) - Len(intents) + 1,
                           Len(sent_log)))
    /\ [](IsSubSeq(sent_log,
                   [k \in 1 .. Len(TriggeredSoFar) |->
                       IntentOfTick(TriggeredSoFar[k])]))
    /\ [](\A i \in 1 .. Len(sent_log) : sent_log[i].side = "Buy")

\* Two intents of different ticks were sent before the simulator took the
\* first: it has processed the first and holds the second.
C32_Witness ==
    /\ Len(sent_log) = 2 /\ sent_log[1] # sent_log[2]
    /\ submitted_count = 2 /\ fill_count = 1 /\ exec_pc = "ack"
    /\ exec_intent = sent_log[2] /\ intents = <<>>
    /\ Len(events) >= 3 /\ events[1].symbol_id = sent_log[1].symbol_id
    /\ events[1].ts_unix_ms = sent_log[1].ts_unix_ms

\* C33: emitted_intents, dropped_intents, gate_block_count,
\* cooldown_block_count, submitted_count, ack_count and fill_count never
\* decrease in a step of any thread (a step moves at most one of them, up
\* by one); open_intents and budget do decrease.
C33_CountersNeverDecrease ==
    [][/\ emitted_intents' >= emitted_intents
       /\ dropped_intents' >= dropped_intents
       /\ gate_block_count' >= gate_block_count
       /\ cooldown_block_count' >= cooldown_block_count
       /\ submitted_count' >= submitted_count
       /\ ack_count' >= ack_count
       /\ fill_count' >= fill_count
       /\ (emitted_intents' - emitted_intents)
              + (dropped_intents' - dropped_intents)
              + (gate_block_count' - gate_block_count)
              + (cooldown_block_count' - cooldown_block_count)
              + (submitted_count' - submitted_count)
              + (ack_count' - ack_count)
              + (fill_count' - fill_count) <= 1]_vars

\* Every thread has counted: an intent emitted and filled, a drop and a
\* cooldown block counted, with budget below its initial value and
\* open_intents back at 0 after a decrement_open_intents call.
C33_Witness ==
    /\ emitted_intents = 1 /\ dropped_intents = 1 /\ cooldown_block_count = 1
    /\ submitted_count = 1 /\ ack_count = 1 /\ fill_count = 1
    /\ release_calls = 1 /\ open_intents = 0 /\ fb_pc = "recv"
    /\ budget = initial_budget - 1 /\ hp_pc = "idle"

C35_EveryFillReleased ==
    (/\ intents = <<>> /\ events = <<>>
     /\ hp_pc = "idle" /\ exec_pc = "recv" /\ fb_pc = "recv") =>
        release_calls = fill_count

\* A step that ends the cooldown check of try_emit_intent for a trigger on
\* an instrument that was never admitted: its cooldown stamp is the
\* initial 0 and no intent was sent for it.
FirstTriggerChecked ==
    /\ intent_tx /\ hp_pc = "emit" /\ hp_pc' # "emit"
    /\ hp_tick.symbol_id < max_symbols
    /\ cooldowns[hp_tick.symbol_id] = 0
    /\ LastSentIndex(hp_tick.symbol_id) = 0

\* C36: the first trigger on an instrument that has never been admitted is
\* never rejected as Cooldown, whatever its timestamp, also one smaller
\* than cooldown_ms.
C36_FirstTriggerNeverCooldown ==
    [][FirstTriggerChecked =>
          /\ cooldown_block_count' = cooldown_block_count
          /\ hp_pc' = "budget"]_vars

\* C36 as amended: the first trigger on an instrument that has never been
\* admitted is rejected as Cooldown exactly when its timestamp is smaller
\* than cooldown_ms (the initial stamp 0 counts as an admit at time 0);
\* from cooldown_ms on it passes the cooldown check.
C36_FirstTriggerCooldownBelowDuration ==
    [][FirstTriggerChecked =>
          IF hp_tick.ts_unix_ms < cooldown_ms
          THEN /\ cooldown_block_count' = cooldown_block_count + 1
               /\ hp_pc' = "idle"
               /\ UNCHANGED <<emitted_intents, gate_block_count,
                              dropped_intents, cooldowns, sent_log>>
          ELSE /\ cooldown_block_count' = cooldown_block_count
               /\ hp_pc' = "budget"]_vars

\* With a cooldown of 3 ms the first trigger of the run, at ts 2, was
\* counted as a cooldown block: nothing was ever sent or stamped.
C36_Witness ==
    /\ intent_tx /\ hp_pc = "idle" /\ cooldown_ms = LastTs
    /\ trigger_log = <<TradeTick(1, 106, 2)>>
    /\ cooldown_block_count = 1 /\ cooldowns[1] = 0 /\ sent_log = <<>>
    /\ budget > 0 /\ max_open_intents > 0

\* C37: budget is conserved: when no try_emit_intent call is in progress,
\* budget = initial_budget + (sum of the replenished amounts)
\* - emitted_intents (written with differences, each within the integers'
\* range); and budget never wraps below zero, which would leave it above
\* initial_budget + (sum of the replenished amounts).
C37_BudgetConserved ==
    /\ hp_pc = "idle" =>
           budget - initial_budget = replenished - emitted_intents
    /\ budget - initial_budget <= replenished

\* A step of one of the three gate checks of try_emit_intent (the sender is
\* set and the id in range), and one that rejects the trigger: the call
\* returns from a check.
GateCheckStep ==
    /\ intent_tx /\ hp_tick.symbol_id < max_symbols
    /\ hp_pc \in {"emit", "budget", "open"} /\ hp_pc' # hp_pc
GateRejects == GateCheckStep /\ hp_pc' = "idle"

\* C38: a gate rejection increments exactly one of cooldown_block_count
\* and gate_block_count, by one, and leaves budget, open_intents, every
\* cooldown stamp, emitted_intents, dropped_intents, every snapshot and the
\* intents channel as they were; the checks passed before it changed none
\* of these either.
C38_RejectionChangesOneCounter ==
    [][GateCheckStep =>
          /\ UNCHANGED <<budget, open_intents, cooldowns, emitted_intents,
                         dropped_intents, snapshots, intents, sent_log,
                         can_buy>>
          /\ IF GateRejects
             THEN <<cooldown_block_count', gate_block_count'>>
                      \in {<<cooldown_block_count + 1, gate_block_count>>,
                           <<cooldown_block_count, gate_block_count + 1>>}
             ELSE UNCHANGED <<cooldown_block_count, gate_block_count>>]_vars

\* After one admitted intent (budget charged, cooldown stamped, the intent
\* in the channel) a trigger on another instrument was rejected for too
\* many open intents.
C38_Witness ==
    /\ hp_pc = "idle" /\ max_open_intents = 1 /\ cooldown_ms = 0
    /\ trigger_log = <<TradeTick(0, 106, 2), TradeTick(1, 106, 3)>>
    /\ emitted_intents = 1 /\ gate_block_count = 1
    /\ cooldown_block_count = 0 /\ dropped_intents = 0
    /\ open_intents = 1 /\ budget = initial_budget - 1 /\ budget > 0
    /\ cooldowns = [s \in Symbols |-> IF s = 0 THEN 2 ELSE 0]
    /\ Len(intents) = 1

\* C39: on a HotPath without an intents sender, a tick whose return
\* reaches the threshold still gets a trigger record from process_tick,
\* and try_emit_intent returns at once: no counter, budget, open_intents,
\* cooldown stamp or channel ever changes, whatever the gate would decide.
C39_NoSenderNoGateEffect ==
    /\ [][(~intent_tx /\ hp_pc = "emit") =>
            /\ hp_pc' = "idle"
            /\ trigger_count' = trigger_count + 1
            /\ trigger_log' = Append(trigger_log, hp_tick)]_vars
    /\ [](~intent_tx =>
            /\ emitted_intents = 0 /\ dropped_intents = 0
            /\ gate_block_count = 0 /\ cooldown_block_count = 0
            /\ budget = initial_budget /\ open_intents = 0
            /\ cooldowns = [s \in Symbols |-> 0]
            /\ intents = <<>> /\ sent_log = <<>>)

\* Without a sender, with cooldown 3, budget 0 and open-intent limit 0,
\* three ticks returned a trigger each.
C39_Witness ==
    /\ ~intent_tx /\ hp_pc = "idle" /\ cooldown_ms = LastTs
    /\ budget = 0 /\ max_open_intents = 0
    /\ trigger_count = 3 /\ Len(trigger_log) = 3
    /\ trigger_log[1].ts_unix_ms < cooldown_ms
    /\ cooldown_block_count = 0 /\ gate_block_count = 0

\* C40: no appended point is lost when snapshot writers overlap: once no
\* writer is inside a call, the published ring of each instrument holds
\* every point that was appended to it (as long as these are no more than
\* the ring has slots, so that none was overwritten by a later add).
C40_NoAppendLost ==
    w_pc = "idle" =>
        \A s \in Symbols :
            Len(append_log[s]) <= RingCapacity =>
                BagOfSeq([i \in 1 .. snapshots[s].count |->
                             snapshots[s].prices[i]])
                    = BagOfSeq(append_log[s])

=============================================================================
